---- MODULE Spec2Model ----
(***************************************************************************)
(* Arena: session orchestrator (execute_debate), invocation governor       *)
(* (rate_control.py) and session store (state_manager.py).                 *)
(*                                                                         *)
(* The specifications share the variables:                                 *)
(*   SpecGov     - callers of with_backoff / llm_call_with_limits /        *)
(*                 embeddings_call_with_limits with arbitrary operations;  *)
(*   Spec        - debate sessions: validate_idea starts execute_debate,   *)
(*                 whose generation and embedding calls go through the     *)
(*                 same governor;                                          *)
(*   SpecTags    - evidence tags and verdict construction;                 *)
(*   SpecRanking - precedent ranking (mmr_select, _diversity_rerank,       *)
(*                 retrieve_similar_ideas);                                *)
(*   SpecBilling - concurrent submissions and Stripe webhook deliveries    *)
(*                 on one user's credits document;                         *)
(*   SpecGraph   - the events execute_debate appends, round by round.      *)
(***************************************************************************)
EXTENDS Integers, Sequences, FiniteSets, TLC

VARIABLES
    mem,            \* state_manager._debate_states: debate id -> state dict
    fs,             \* Firestore collection "debate_states": id -> document
    task,           \* per debate: the execute_debate coroutine (position, locals)
    call,           \* per caller: the governor call it is making
    semaphores,     \* rate_control._semaphores: key -> asyncio.Semaphore
    embed_sem,      \* rate_control._global_embed_semaphore
    counters,       \* monitoring.metrics.counters ("retry:llm", "429:llm")
    enable_historical, \* settings.enable_historical_context
    fs_failures,    \* number of Firestore writes that have failed so far
    io,             \* a pure function under check: its input and its result
    users,          \* Firestore collection "users": uid -> document
    stripe_sessions, \* Firestore collection "stripe_sessions": id -> document
    req,            \* per HTTP request: the handler serving it (position, locals)
    today           \* datetime.utcnow().date(), as a day number

BillingVars == <<users, stripe_sessions, req, today>>

vars == <<mem, fs, task, call, semaphores, embed_sem, counters,
          enable_historical, fs_failures, io, BillingVars>>

----------------------------------------------------------------------------
(* Bounds of the model                                                     *)

\* largest max_attempts argument a caller passes to with_backoff
MaxAttemptsArg == 3
\* failed attempts recorded by the metrics counters are capped here
MaxRetryCount == 2
\* Firestore writes that may fail in one behaviour
MaxFsFailures == 1
\* longest raw generation response, in tokens
MaxRespLen == 3

----------------------------------------------------------------------------
(* Program constants                                                       *)

LlmMaxConcurrencyPerDebate == 1
LlmBackoffMaxAttempts == 3
\* delays in milliseconds (0.5 s and 4.0 s)
LlmBackoffBaseDelay == 500
LlmBackoffMaxDelay == 4000
EmbedSemaphoreSize == 2

Debates == {"d1"}
GovCallers == {"c1", "c2"}
Callers == Debates \cup GovCallers
\* debate_id arguments of llm_call_with_limits; "none" stands for None
DebateIdArgs == {"d1", "d2", "none"}
GlobalKey == "__global__"
Keys == (DebateIdArgs \ {"none"}) \cup {GlobalKey}

\* what one invocation of the wrapped operation does
\*   ok        - returns
\*   transient - raises an Exception (timeout, 5xx)
\*   rate429   - raises an Exception whose text contains "429"/"rate limit"
\*   permanent - raises an Exception for a non-transient cause (bad input)
Failures == {"transient", "rate429", "permanent"}
Outcomes == {"ok"} \cup Failures

\* random.random() in [0,1) makes the jitter factor 0.7 + 0.6*r lie in
\* [0.7, 1.3): the two ends, in percent
JitterLow == 70
JitterHigh == 130

Min(a, b) == IF a <= b THEN a ELSE b

RECURSIVE Pow2(_)
Pow2(n) == IF n <= 0 THEN 1 ELSE 2 * Pow2(n - 1)

----------------------------------------------------------------------------
(* asyncio.Semaphore: a counter and a FIFO queue of blocked acquirers      *)

NewSemaphore(n) == [value |-> n, waiters |-> <<>>]

\* acquire() takes a permit at once iff one is free
CanTake(sem) == sem.value > 0

TakePermit(sem) == [sem EXCEPT !.value = @ - 1]

Enqueue(sem, c) == [sem EXCEPT !.waiters = Append(@, c)]

\* release() wakes the longest-waiting acquirer, if there is one
WokenByMutant(sem) == {}

WokenBy(sem) == IF sem.waiters # <<>> THEN {Head(sem.waiters)} ELSE {}

\* release(): the permit goes to the acquirer it wakes, otherwise back to
\* the counter
ReleasedMutant(sem) ==
    IF sem.waiters # <<>>
    THEN [sem EXCEPT !.waiters = Tail(@)]
    ELSE sem

Released(sem) ==
    IF sem.waiters # <<>>
    THEN [sem EXCEPT !.waiters = Tail(@)]
    ELSE [sem EXCEPT !.value = @ + 1]

----------------------------------------------------------------------------
(* Invocation governor: rate_control.py                                    *)

NoExc == [kind |-> "none", inv |-> 0]

NoDelay == [lo |-> 0, hi |-> 0]

\* A caller that is not inside the governor.
\*   via          "direct" (with_backoff), "llm" or "embed" (the wrappers)
\*   arg          the debate_id argument of llm_call_with_limits
\*   key          the key of the limiter the call goes through
\*   attempts     with_backoff's local counter of failed attempts
\*   invocations  how often the wrapped operation has been invoked
\*   failed, failed429, failedPermanent
\*                how many of those invocations raised (of each kind)
\*   exc          the exception the call raised: the kind and the number
\*                of the invocation that created the exception object
\*   delay        the current backoff sleep lies in [lo, hi) milliseconds
IdleCall ==
    [pc |-> "idle", via |-> "none", arg |-> "none", key |-> "none", attempts |-> 0,
     max_attempts |-> 0, invocations |-> 0, failed |-> 0, failed429 |-> 0,
     failedPermanent |-> 0, exc |-> NoExc, delay |-> NoDelay]

\* with_backoff entered: "max_attempts or settings.llm_backoff_max_attempts"
\* and the first "await func()"
EnterBackoff(via, key, ma) ==
    [IdleCall EXCEPT !.pc = "inflight", !.via = via, !.key = key,
                     !.max_attempts = IF ma = 0 THEN LlmBackoffMaxAttempts ELSE ma,
                     !.invocations = 1]

Blocked(via, key) ==
    [IdleCall EXCEPT !.pc = "waiting", !.via = via, !.key = key]

\* debate_id or "__global__"
KeyOfMutant(debate_id) == GlobalKey

KeyOf(debate_id) == IF debate_id = "none" THEN GlobalKey ELSE debate_id

\* get_debate_semaphore: the registry after the lookup (created on first use)
GetDebateSemaphoreMutant(key) ==
    (key :> NewSemaphore(LlmMaxConcurrencyPerDebate)) @@ semaphores

get_debate_semaphore(key) ==
    IF key \in DOMAIN semaphores
    THEN semaphores
    ELSE semaphores @@ (key :> NewSemaphore(LlmMaxConcurrencyPerDebate))

\* "async with sem" on entry, then with_backoff(call)
llm_call_with_limits(c, debate_id) ==
    LET key == KeyOf(debate_id)
        sems == get_debate_semaphore(key)
    IN  /\ IF CanTake(sems[key])
           THEN /\ semaphores' = [sems EXCEPT ![key] = TakePermit(@)]
                /\ call' = [call EXCEPT ![c] =
                              [EnterBackoff("llm", key, 0) EXCEPT !.arg = debate_id]]
           ELSE /\ semaphores' = [sems EXCEPT ![key] = Enqueue(@, c)]
                /\ call' = [call EXCEPT ![c] =
                              [Blocked("llm", key) EXCEPT !.arg = debate_id]]
        /\ UNCHANGED <<embed_sem, counters>>

\* "async with _global_embed_semaphore" on entry, then with_backoff(call)
EmbeddingsCallWithLimitsMutant(c) ==
    /\ embed_sem' = TakePermit(embed_sem)
    /\ call' = [call EXCEPT ![c] = EnterBackoff("embed", "embed", 0)]
    /\ UNCHANGED <<semaphores, counters>>

embeddings_call_with_limits(c) ==
    /\ IF CanTake(embed_sem)
       THEN /\ embed_sem' = TakePermit(embed_sem)
            /\ call' = [call EXCEPT ![c] = EnterBackoff("embed", "embed", 0)]
       ELSE /\ embed_sem' = Enqueue(embed_sem, c)
            /\ call' = [call EXCEPT ![c] = Blocked("embed", "embed")]
    /\ UNCHANGED <<semaphores, counters>>

\* The semaphore the call c holds a permit of (none for a direct call).
HeldSem(c) ==
    IF call[c].via = "llm" THEN semaphores[call[c].key] ELSE embed_sem

\* "async with" on exit: release, and wake the longest waiter. cfin is the
\* finished call record of c.
ExitLimits(c, cfin) ==
    IF call[c].via = "direct"
    THEN /\ call' = [call EXCEPT ![c] = cfin]
         /\ UNCHANGED <<semaphores, embed_sem>>
    ELSE LET sem == HeldSem(c)
             woken == WokenBy(sem)
         IN  /\ call' = [x \in Callers |->
                           IF x = c THEN cfin
                           ELSE IF x \in woken THEN [call[x] EXCEPT !.pc = "woken"]
                           ELSE call[x]]
             /\ IF call[c].via = "llm"
                THEN /\ semaphores' = [semaphores EXCEPT ![call[c].key] = Released(sem)]
                     /\ UNCHANGED embed_sem
                ELSE /\ embed_sem' = Released(sem)
                     /\ UNCHANGED semaphores

\* A woken acquirer resumes: it owns the permit and enters with_backoff.
Resume(c) ==
    /\ call[c].pc = "woken"
    /\ call' = [call EXCEPT ![c] =
                  [EnterBackoff(call[c].via, call[c].key, 0) EXCEPT !.arg = call[c].arg]]
    /\ UNCHANGED <<semaphores, embed_sem, counters>>

\* "return await func(*args, **kwargs)"
OpReturns(c) ==
    /\ call[c].pc = "inflight"
    /\ ExitLimits(c, [call[c] EXCEPT !.pc = "returned"])
    /\ UNCHANGED counters

\* min(max_delay, base_delay * 2 ** (attempts - 1)) * (0.7 + 0.6 * random())
BackoffDelay(attempts) ==
    LET delay == Min(LlmBackoffMaxDelay, LlmBackoffBaseDelay * Pow2(attempts - 1))
    IN  [lo |-> (delay * JitterLow) \div 100, hi |-> (delay * JitterHigh) \div 100]

\* attempts >= max_attempts
ExhaustedMutant(attempts, max_attempts) == attempts > max_attempts

Exhausted(attempts, max_attempts) == attempts >= max_attempts

\* the exception "raise" lets out of with_backoff: the one just caught
ReraisedMutant(kind, inv) == [kind |-> "wrapped", inv |-> inv]

Reraised(kind, inv) == [kind |-> kind, inv |-> inv]

\* record_retry("llm")
RecordRetryMutant(cnt) == cnt

record_retry(cnt) == [cnt EXCEPT !.retry = @ + 1]

\* record_429("llm")
record_429(cnt) == [cnt EXCEPT !.r429 = @ + 1]

\* "except exceptions as e": the operation raised an Exception of this kind
OpFails(c, kind) ==
    LET attempts == call[c].attempts + 1
        counted == [call[c] EXCEPT
                      !.attempts = attempts,
                      !.failed = @ + 1,
                      !.failed429 = IF kind = "rate429" THEN @ + 1 ELSE @,
                      !.failedPermanent = IF kind = "permanent" THEN @ + 1 ELSE @]
    IN  /\ call[c].pc = "inflight"
        /\ IF Exhausted(attempts, call[c].max_attempts)
           THEN /\ ExitLimits(c, [counted EXCEPT
                                    !.pc = "raised",
                                    !.exc = Reraised(kind, call[c].invocations)])
                /\ UNCHANGED counters
           ELSE /\ counters.retry < MaxRetryCount
                /\ counters' = record_retry(IF kind = "rate429"
                                            THEN record_429(counters)
                                            ELSE counters)
                /\ call' = [call EXCEPT ![c] =
                              [counted EXCEPT
                                 !.pc = "sleeping",
                                 !.delay = BackoffDelay(attempts)]]
                /\ UNCHANGED <<semaphores, embed_sem>>

\* asyncio.sleep(delay) is over: the loop invokes the operation again
Wake(c) ==
    /\ call[c].pc = "sleeping"
    /\ call' = [call EXCEPT ![c] = [@ EXCEPT !.pc = "inflight",
                                             !.invocations = @ + 1,
                                             !.delay = NoDelay]]
    /\ UNCHANGED <<semaphores, embed_sem, counters>>

\* The steps of a call that is under way, whoever made it.
GovStep(c) ==
    \/ Resume(c)
    \/ OpReturns(c)
    \/ \E kind \in Failures : OpFails(c, kind)
    \/ Wake(c)

----------------------------------------------------------------------------
(* Callers of the governor with arbitrary operations (SpecGov)             *)

SessionVars ==
    <<mem, fs, task, enable_historical, fs_failures, io, BillingVars>>

GovCallBackoff(c, ma) ==
    /\ call[c].pc = "idle"
    /\ call' = [call EXCEPT ![c] = EnterBackoff("direct", "none", ma)]
    /\ UNCHANGED <<semaphores, embed_sem, counters, SessionVars>>

GovCallLlm(c, debate_id) ==
    /\ call[c].pc = "idle"
    /\ llm_call_with_limits(c, debate_id)
    /\ UNCHANGED SessionVars

GovCallEmbed(c) ==
    /\ call[c].pc = "idle"
    /\ embeddings_call_with_limits(c)
    /\ UNCHANGED SessionVars

GovResume(c) == Resume(c) /\ UNCHANGED SessionVars

GovOpReturns(c) == OpReturns(c) /\ UNCHANGED SessionVars

GovOpFails(c, kind) == OpFails(c, kind) /\ UNCHANGED SessionVars

GovWake(c) == Wake(c) /\ UNCHANGED SessionVars

----------------------------------------------------------------------------
(* State dicts                                                             *)

\* A state dict is a function from the keys it holds to their values;
\* {} is the empty function.
EmptyDict == <<>>

\* dict.get(key, default)
Get(dict, key, default) == IF key \in DOMAIN dict THEN dict[key] ELSE default

\* dict.update(upd): the keys of upd overwrite
Update(dict, upd) == upd @@ dict

\* "if state", "if not state_dict"
Truthy(dict) == DOMAIN dict # {}

----------------------------------------------------------------------------
(* Firestore documents and transactions                                    *)

\* A collection is a function from the ids of its documents to the
\* documents; a document is its fields and its update time (a counter of
\* the writes to it).
DocumentSnapshot(coll, id) ==
    IF id \in DOMAIN coll
    THEN [exists |-> TRUE, data |-> coll[id].data,
          update_time |-> coll[id].update_time]
    ELSE [exists |-> FALSE, data |-> EmptyDict, update_time |-> 0]

\* set(fields, merge=True), update(fields) on an existing document, and
\* the writes of a transaction that commits
SetMerge(coll, id, fields) ==
    LET snapshot == DocumentSnapshot(coll, id)
    IN  (id :> [data |-> Update(snapshot.data, fields),
                update_time |-> snapshot.update_time + 1]) @@ coll

\* The outcome of the function a transaction runs on a snapshot: the
\* exception it raises, or the fields it writes.
Raises(exc) == [exc |-> exc, fields |-> EmptyDict]

Writes(fields) == [exc |-> "none", fields |-> fields]

\* @firestore.transactional: the transaction commits iff the document it
\* read has not been written since; otherwise the function is run again
\* on a new snapshot
CommitsMutant(snapshot, coll, id) == TRUE

Commits(snapshot, coll, id) == DocumentSnapshot(coll, id) = snapshot

\* a transaction that runs with no other writer in between
Transact(coll, id, outcome) ==
    [exc |-> outcome.exc,
     coll |-> IF outcome.exc = "none" THEN SetMerge(coll, id, outcome.fields)
              ELSE coll]

----------------------------------------------------------------------------
(* Credits: billing/credits.py, and the quick-roast limit of arena.py      *)

\* the one user whose requests are modelled
Uid == "u1"

\* VALIDATION_CREDIT_COSTS
ValidationCreditCosts == [short |-> 0, long |-> 2]

\* "if count >= 1": quick roasts a user may start per day
QuickRoastLimit == 1

\* int(data.get("credits") or 0)
get_current_credits(data) == Get(data, "credits", 0)

\* consume_credits._consume
Consume(snapshot, amount) ==
    IF ~snapshot.exists
    THEN Raises("ValueError")
    ELSE LET current == get_current_credits(snapshot.data)
         IN  IF current < amount
             THEN Raises("InsufficientCreditsError")
             ELSE Writes([credits |-> current - amount])

\* grant_credits._grant
Grant(snapshot, amount) ==
    IF ~snapshot.exists
    THEN Raises("ValueError")
    ELSE Writes([credits |-> get_current_credits(snapshot.data) + amount])

\* _enforce_quick_roast_limit._update; day is the "today" the function
\* computed before the transaction, 0 stands for a missing last date
QuickRoastUpdateMutant(snapshot, day) ==
    Writes([quick_roast_last_date |-> day, quick_roast_count_today |-> 1])

QuickRoastUpdate(snapshot, day) ==
    LET data == snapshot.data
        last_date == Get(data, "quick_roast_last_date", 0)
        stored == Get(data, "quick_roast_count_today", 0)
        count == IF last_date # day THEN 0 ELSE stored
        counted == [quick_roast_last_date |-> day,
                    quick_roast_count_today |-> count + 1]
    IN  IF count >= QuickRoastLimit
        THEN Raises("QuickRoastLimitError")
        ELSE IF ~snapshot.exists
        THEN Writes(Update([credits |-> 0], counted))
        ELSE Writes(counted)

\* consume_credits, grant_credits and _enforce_quick_roast_limit run with
\* no other writer of the user's document in between
consume_credits(coll, uid, amount) ==
    IF amount <= 0 THEN [exc |-> "none", coll |-> coll]
    ELSE Transact(coll, uid, Consume(DocumentSnapshot(coll, uid), amount))

grant_credits(coll, uid, amount) ==
    IF amount <= 0 THEN [exc |-> "none", coll |-> coll]
    ELSE Transact(coll, uid, Grant(DocumentSnapshot(coll, uid), amount))

enforce_quick_roast_limit(coll, uid, day) ==
    Transact(coll, uid, QuickRoastUpdate(DocumentSnapshot(coll, uid), day))

\* validate_idea's "except Exception": whatever is raised inside the
\* handler, an HTTPException included, leaves it as an HTTPException with
\* status 500
StatusRaised(status_code) == 500

\* the limit and credit steps of validate_idea (before the debate id is
\* made): the status the checks raise (0: none) and the users collection
\* after them
SubmitChecks(coll, uid, mode, day) ==
    LET limited == IF mode = "short"
                   THEN enforce_quick_roast_limit(coll, uid, day)
                   ELSE [exc |-> "none", coll |-> coll]
        credit_cost == ValidationCreditCosts[mode]
        consumed == IF credit_cost > 0
                    THEN consume_credits(limited.coll, uid, credit_cost)
                    ELSE [exc |-> "none", coll |-> limited.coll]
    IN  IF limited.exc = "QuickRoastLimitError"
        THEN [status |-> StatusRaised(429), coll |-> limited.coll]
        ELSE IF consumed.exc = "InsufficientCreditsError"
        THEN [status |-> StatusRaised(402), coll |-> consumed.coll]
        ELSE IF consumed.exc = "ValueError"
        THEN [status |-> StatusRaised(404), coll |-> consumed.coll]
        ELSE [status |-> 0, coll |-> consumed.coll]

\* HTTP requests of the user: submits (POST /validate) and deliveries of
\* one Stripe webhook event
Requests == {"r1", "r2", "r3"}

\* A request that has not arrived.
\*   kind       "submit" or "webhook"
\*   mode       the validation mode of a submit
\*   day        the "today" _enforce_quick_roast_limit computed
\*   snapshot   the document snapshot the running transaction has read
\*   committing the transaction's function has returned
\*   status     the HTTP status of the response (0: none yet)
\*   exc        the exception raised by the limit or credit step
\*   passed     the request has passed _enforce_quick_roast_limit
\*   consumed   the credits consume_credits has taken for it
\*   granted    how often grant_credits has committed for it
\*   debate     the debate id of the session it created
NoSnapshot == [exists |-> FALSE, data |-> EmptyDict, update_time |-> 0]

IdleRequest ==
    [pc |-> "idle", kind |-> "none", mode |-> "none", day |-> 0,
     snapshot |-> NoSnapshot, committing |-> FALSE,
     status |-> 0, exc |-> "none", passed |-> FALSE, consumed |-> 0, granted |-> 0, debate |-> "none"]

\* a user document as the sign-up leaves it, with this balance
UserDoc(credits) == [data |-> [credits |-> credits], update_time |-> 1]

\* the user has the credits of one long validation
InitOneUser == users = (Uid :> UserDoc(ValidationCreditCosts["long"]))

----------------------------------------------------------------------------
(* Initial states                                                          *)

\* no pure function is being applied
NoIo == [fn |-> "none"]

\* The execute_debate coroutine of a debate: where it is, its mode, the text
\* of the exception its handler caught, the evidence tags in the results
\* its workers have returned so far, and where that exception came from:
\* the step that raised it, the response that step was handling (if any)
\* and whether it was a generation call giving up
NoCause == [site |-> "none", resp |-> "none", gave_up |-> FALSE]

\* the local variable verdict before generate_verdict has returned
NoVerdict ==
    [decision |-> "none", score |-> 0, kill_shots |-> 0, test_plan |-> 0,
     confidence |-> 0]

\* the evidence_tags argument of judge.generate_verdict, once it is called
NoVerdictArgs == [called |-> FALSE, evidence_tags |-> <<>>]

NoTask ==
    [pc |-> "none", mode |-> "none", exc |-> "none", produced |-> <<>>,
     cause |-> NoCause, verdict |-> NoVerdict, verdict_resp |-> "none",
     verdict_args |-> NoVerdictArgs]

InitCommon ==
    /\ stripe_sessions = <<>>
    /\ req = [r \in Requests |-> IdleRequest]
    /\ today = 1
    /\ mem = <<>>
    /\ fs = <<>>
    /\ task = [d \in Debates |-> NoTask]
    /\ call = [c \in Callers |-> IdleCall]
    /\ semaphores = <<>>
    /\ embed_sem = NewSemaphore(EmbedSemaphoreSize)
    /\ counters = [retry |-> 0, r429 |-> 0]
    /\ fs_failures = 0
    /\ io = NoIo

InitGov ==
    /\ InitCommon
    /\ InitOneUser
    /\ enable_historical = FALSE

NextGov ==
    \E c \in GovCallers :
        \/ \E ma \in 0..MaxAttemptsArg : GovCallBackoff(c, ma)
        \/ \E id \in DebateIdArgs : GovCallLlm(c, id)
        \/ GovCallEmbed(c)
        \/ GovResume(c)
        \/ GovOpReturns(c)
        \/ \E kind \in Failures : GovOpFails(c, kind)
        \/ GovWake(c)

SpecGov == InitGov /\ [][NextGov]_vars

----------------------------------------------------------------------------
(* Session store: state_manager.py                                         *)

\* get_debate_state: the in-memory dict first, then the Firestore document;
\* None is rendered as the empty dict (every caller writes "or {}" or tests
\* "if not state_dict")
GetDebateStateMutant(d) ==
    IF d \in DOMAIN fs THEN fs[d]
    ELSE IF d \in DOMAIN mem /\ Truthy(mem[d]) THEN mem[d]
    ELSE EmptyDict

get_debate_state(d) ==
    IF d \in DOMAIN mem /\ Truthy(mem[d]) THEN mem[d]
    ELSE IF d \in DOMAIN fs THEN fs[d]
    ELSE EmptyDict

\* doc_ref.set(state_dict, merge=True)
FirestoreSetMergeMutant(d, state_dict) ==
    (d :> Update(state_dict, Get(fs, d, EmptyDict))) @@ fs

FirestoreSetMerge(d, state_dict) ==
    (d :> Update(Get(fs, d, EmptyDict), state_dict)) @@ fs

\* save_debate_state: the in-memory entry is replaced first; the Firestore
\* write may fail (written = FALSE), which is caught and returns False
SaveDebateStateMutant(d, state_dict, written) ==
    /\ written \/ fs_failures < MaxFsFailures
    /\ mem' = IF written THEN (d :> state_dict) @@ mem ELSE mem
    /\ fs' = IF written THEN FirestoreSetMerge(d, state_dict) ELSE fs
    /\ fs_failures' = IF written THEN fs_failures ELSE fs_failures + 1

save_debate_state(d, state_dict, written) ==
    /\ written \/ fs_failures < MaxFsFailures
    /\ mem' = (d :> state_dict) @@ mem
    /\ fs' = IF written THEN FirestoreSetMerge(d, state_dict) ELSE fs
    /\ fs_failures' = IF written THEN fs_failures ELSE fs_failures + 1

----------------------------------------------------------------------------
(* Orchestrator: routers/arena.py                                          *)

Modes == {"short", "long"}

\* What a generation call returns:
\*   empty            nothing left after stripping the code fences
\*   plain            text that is not JSON
\*   json             a JSON object without claims of a valid type
\*   json_claims      a JSON object with at least one valid claim
\*   json_array       valid JSON that is not an object
\*   json_verdict     a JSON object with all fields of a valid Verdict
\*   json_verdict_default   the same without the "confidence" member
\*   json_bad_verdict a JSON object with the Verdict fields, the confidence
\*                    out of bounds
\*   json_bad_score, json_bad_kill_shots, json_bad_test_plan
\*                    the same with a scorecard dimension out of bounds, one
\*                    kill shot too many, one test-plan item too many
Responses == {"empty", "plain", "json", "json_claims", "json_array",
              "json_verdict", "json_verdict_default", "json_bad_verdict",
              "json_bad_score", "json_bad_kill_shots", "json_bad_test_plan"}

\* str(e) of the exceptions the orchestrator can see
ExcEmptyResponse == "returned empty response after code block removal"
ExcNoStoreEvidence == "'JudgeAgent' object has no attribute 'store_evidence_tags'"
ExcListHasNoGet == "'list' object has no attribute 'get'"
ExcListIndex == "list indices must be integers or slices, not str"
ExcKeyDecision == "'decision'"
ExcVerdictValidation == "validation error for Verdict"
ExcCustomerKwarg == "analyze_customer() got an unexpected keyword argument 'historical_context'"

\* the text of the exception a generation call gave up with
ExcOfCall(exc) == exc.kind

\* extract_idea_from_prd after the call: a JSONDecodeError falls back to a
\* minimal structure; extracted_data.get needs an object
ExtractOutcome(resp) ==
    IF resp = "json_array" THEN ExcListHasNoGet ELSE "ok"

\* BaseAgent.parse_json_response followed by the use of the result as a dict
ParseOutcome(resp) ==
    IF resp = "empty" THEN ExcEmptyResponse ELSE "ok"

\* JudgeAgent.clarify_idea after the call
ClarifyOutcome(resp) ==
    IF ParseOutcome(resp) # "ok" THEN ParseOutcome(resp)
    ELSE IF resp = "json_claims" THEN ExcNoStoreEvidence
    ELSE IF resp = "json_array" THEN ExcListHasNoGet
    ELSE "ok"

\* BaseAgent.process_response after the call (Skeptic)
ProcessOutcome(resp) == ParseOutcome(resp)

\* models/evidence.py, EvidenceType: the values of the enumeration
EvidenceType == {"evidence", "assumption", "needs_validation"}

\* What the "type" member of a claims entry can hold: a value of the
\* enumeration, the word the tagging prompt asks for ("Verified"), or
\* nothing ("absent": the entry has no such key)
ClaimTypeValues == EvidenceType \cup {"Verified", "absent"}

\* What the "text" member can hold: a string, the JSON value null, or
\* nothing
ClaimTexts == {"t1", "t2"}

ClaimTextValues == ClaimTexts \cup {"null", "absent"}

\* An entry of the claims array: a JSON object with these members, or a
\* value that is not an object (dict FALSE)
NotADict == [dict |-> FALSE, text |-> "absent", type |-> "absent"]

ClaimEntries ==
    {NotADict} \cup
    [dict : {TRUE}, text : ClaimTextValues, type : ClaimTypeValues]

\* EvidenceTag(text=..., type=..., agent=self.name, round=round_number)
EvidenceTag(text, type, agent, round) ==
    [text |-> text, type |-> type, agent |-> agent, round |-> round]

\* The body of the loop for one claim: EvidenceType(claim["type"]) raises
\* ValueError for a value outside the enumeration, and so does the
\* EvidenceTag constructor for a text that is not a string (pydantic's
\* ValidationError is a ValueError); "except ValueError: continue"
TagsOfClaimMutant(agent, claim, round) ==
    IF claim.dict /\ claim.text \in ClaimTexts /\ claim.type # "absent"
    THEN <<EvidenceTag(claim.text, claim.type, agent, round)>>
    ELSE <<>>

TagsOfClaim(agent, claim, round) ==
    IF claim.dict /\ claim.text # "absent" /\ claim.type # "absent"
    THEN IF claim.type \in EvidenceType /\ claim.text \in ClaimTexts
         THEN <<EvidenceTag(claim.text, claim.type, agent, round)>>
         ELSE <<>>
    ELSE <<>>

RECURSIVE TagsOfClaims(_, _, _)
TagsOfClaims(agent, claims, round) ==
    IF claims = <<>> THEN <<>>
    ELSE TagsOfClaim(agent, Head(claims), round)
            \o TagsOfClaims(agent, Tail(claims), round)

\* The value of the "claims" member: an array of entries or null
JsonArray(items) == [json |-> "array", items |-> items]

JsonNull == [json |-> "null", items |-> <<>>]

\* BaseAgent.extract_evidence_tags on a parsed object: response_data is
\* the object's members; a "claims" member that is null cannot be iterated
ExcNoneNotIterable == "'NoneType' object is not iterable"

extract_evidence_tags_of(agent, response_data, round_number) ==
    IF "claims" \notin DOMAIN response_data
    THEN [kind |-> "return", exc |-> "none", tags |-> <<>>]
    ELSE IF response_data.claims = JsonNull
    THEN [kind |-> "raise", exc |-> ExcNoneNotIterable, tags |-> <<>>]
    ELSE [kind |-> "return", exc |-> "none",
          tags |-> TagsOfClaims(agent, response_data.claims.items, round_number)]

\* the object of a json_claims response
JsonClaims ==
    [claims |-> JsonArray(<<[dict |-> TRUE, text |-> "t1", type |-> "evidence"]>>)]

\* BaseAgent.extract_evidence_tags: one tag for each valid claim, with the
\* agent's name and the round
extract_evidence_tags(agent, round, resp) ==
    IF resp = "json_claims"
    THEN extract_evidence_tags_of(agent, JsonClaims, round).tags
    ELSE <<>>

\* models/verdict.py: the bounds of Scorecard's dimensions, of the lists
\* kill_shots and test_plan, and of confidence (in hundredths)
ScoreMin == 0

ScoreMax == 100

MaxKillShots == 5

MaxTestPlan == 7

ConfidenceMin == 0

ConfidenceMax == 100

\* parsed_response.get("confidence", 0.5)
DefaultConfidence == 50

\* The object of a verdict response, as far as Verdict validates it:
\*   missing     the member the object lacks first ("none": it has all)
\*   score       the value of the scorecard's dimensions
\*   kill_shots  the number of kill shots
\*   test_plan   the number of test-plan items
\*   confidence  in hundredths
VerdictObject(missing, score, kill_shots, test_plan, confidence) ==
    [missing |-> missing, score |-> score, kill_shots |-> kill_shots,
     test_plan |-> test_plan, confidence |-> confidence]

\* the object each response parses to; an object that was not written as
\* a verdict has none of its members
VerdictObjectOf(resp) ==
    CASE resp = "json_verdict" ->
            VerdictObject("none", ScoreMax, MaxKillShots, MaxTestPlan, ConfidenceMax)
      [] resp = "json_verdict_default" ->
            VerdictObject("confidence", ScoreMin, 0, 0, 0)
      [] resp = "json_bad_verdict" ->
            VerdictObject("none", ScoreMax, MaxKillShots, MaxTestPlan, ConfidenceMax + 1)
      [] resp = "json_bad_score" ->
            VerdictObject("none", ScoreMin - 1, 0, 0, ConfidenceMin)
      [] resp = "json_bad_kill_shots" ->
            VerdictObject("none", ScoreMin, MaxKillShots + 1, 0, ConfidenceMin)
      [] resp = "json_bad_test_plan" ->
            VerdictObject("none", ScoreMin, 0, MaxTestPlan + 1, ConfidenceMin)
      [] OTHER -> VerdictObject("decision", 0, 0, 0, 0)

\* Verdict(decision=parsed_response["decision"], ...,
\*         confidence=parsed_response.get("confidence", 0.5)):
\* the KeyError of the first indexed member that is missing, pydantic's
\* ValidationError for a value out of bounds, or the verdict
BuildVerdictMutant(object) ==
    IF object.missing = "decision"
    THEN [kind |-> "raise", exc |-> ExcKeyDecision, verdict |-> NoVerdict]
    ELSE LET confidence == IF object.missing = "confidence"
                           THEN DefaultConfidence ELSE object.confidence
         IN  IF /\ object.score \in ScoreMin..ScoreMax
                /\ object.test_plan <= MaxTestPlan
                /\ confidence \in ConfidenceMin..ConfidenceMax
             THEN [kind |-> "return", exc |-> "none",
                   verdict |-> [decision |-> "Pivot", score |-> object.score,
                                kill_shots |-> object.kill_shots,
                                test_plan |-> object.test_plan,
                                confidence |-> confidence]]
             ELSE [kind |-> "raise", exc |-> ExcVerdictValidation,
                   verdict |-> NoVerdict]

BuildVerdict(object) ==
    IF object.missing = "decision"
    THEN [kind |-> "raise", exc |-> ExcKeyDecision, verdict |-> NoVerdict]
    ELSE LET confidence == IF object.missing = "confidence"
                           THEN DefaultConfidence ELSE object.confidence
         IN  IF /\ object.score \in ScoreMin..ScoreMax
                /\ object.kill_shots <= MaxKillShots
                /\ object.test_plan <= MaxTestPlan
                /\ confidence \in ConfidenceMin..ConfidenceMax
             THEN [kind |-> "return", exc |-> "none",
                   verdict |-> [decision |-> "Pivot", score |-> object.score,
                                kill_shots |-> object.kill_shots,
                                test_plan |-> object.test_plan,
                                confidence |-> confidence]]
             ELSE [kind |-> "raise", exc |-> ExcVerdictValidation,
                   verdict |-> NoVerdict]

\* JudgeAgent.generate_verdict after the call
VerdictOutcome(resp) ==
    IF ParseOutcome(resp) # "ok" THEN ParseOutcome(resp)
    ELSE IF resp = "json_array" THEN ExcListIndex
    ELSE IF BuildVerdict(VerdictObjectOf(resp)).kind = "return" THEN "ok"
    ELSE BuildVerdict(VerdictObjectOf(resp)).exc

\* verdict.model_dump() of the Verdict built from a json_verdict response
TheVerdict == BuildVerdict(VerdictObjectOf("json_verdict")).verdict

\* validate_idea: the initial snapshot
InitialState(mode) ==
    [validation_mode |-> mode, status |-> "pending", current_round |-> 0,
     round_status |-> "pending", transcript |-> <<>>]

\* Transcript events; the payload text is kept for the error event only.
Event(agent, round, type) == [agent |-> agent, round |-> round, type |-> type]

ErrorEvent(e) ==
    [agent |-> "System", type |-> "error", text |-> <<"Debate failed: ", e>>]

\* the state append_event stores for this event
AppendedStatusMutant(state) == "in_progress"

AppendedStatus(state) == Get(state, "status", "in_progress")

AppendedTranscriptMutant(state, event) == <<event>>

AppendedTranscript(state, event) == Append(Get(state, "transcript", <<>>), event)

AppendedRoundMutant(state, event) == Get(event, "round", 0)

AppendedRound(state, event) ==
    Get(event, "round", Get(state, "current_round", 0))

Appended(state, event) ==
    Update(state, [transcript |-> AppendedTranscript(state, event),
                   status |-> AppendedStatus(state),
                   current_round |-> AppendedRound(state, event),
                   round_status |-> "in_progress"])

\* execute_debate.append_event
append_event(d, event, written) ==
    save_debate_state(d, Appended(get_debate_state(d), event), written)

\* the handler of execute_debate up to its first await: the failure is
\* recorded in the snapshot
FailedStatusMutant == "in_progress"

FailedStatus == "failed"

FailedErrorMutant(e) == "error"

FailedError(e) == e

CaptureFailure(d, e, resp, written) ==
    /\ save_debate_state(d, Update(get_debate_state(d),
                                   [status |-> FailedStatus,
                                    round_status |-> "failed",
                                    error |-> FailedError(e)]), written)
    /\ task' = [task EXCEPT ![d] =
                  [@ EXCEPT !.pc = "error_event", !.exc = e,
                            !.cause = [site |-> task[d].pc, resp |-> resp,
                                       gave_up |-> call[d].pc = "raised"]]]

Goto(d, pc) == task' = [task EXCEPT ![d] = [@ EXCEPT !.pc = pc]]

GovVars == <<semaphores, embed_sem, counters>>

CallDone(d) == call' = [call EXCEPT ![d] = IdleCall]

\* validate_idea: store the initial snapshot and start the background task;
\* saved = FALSE is a failed snapshot write, recorded = FALSE a failure of
\* the "verdicts" document write that follows it
SubmittedMutant(saved, recorded) == IF recorded THEN "start" ELSE "rejected"

\* "start": asyncio.create_task(execute_debate(...)) was reached;
\* "rejected": an HTTPException (status 500) was raised before it
Submitted(saved, recorded) == IF saved /\ recorded THEN "start" ELSE "rejected"

\* validate_idea from "Generate unique debate ID" on, for the debate id
\* uuid4 returns
CreateSession(d, mode, saved, recorded) ==
    /\ task[d].pc = "none"
    /\ d \notin DOMAIN mem
    /\ save_debate_state(d, InitialState(mode), saved)
    /\ task' = [task EXCEPT ![d] =
                  [NoTask EXCEPT !.pc = Submitted(saved, recorded), !.mode = mode]]

\* the credits handed back when the snapshot could not be saved
Refunded(coll, uid, mode, saved) ==
    IF ~saved /\ ValidationCreditCosts[mode] > 0
    THEN grant_credits(coll, uid, ValidationCreditCosts[mode]).coll
    ELSE coll

\* validate_idea, served with no other request of the user in between
validate_idea(d, mode, saved, recorded) ==
    LET checked == SubmitChecks(users, Uid, mode, today)
    IN  /\ task[d].pc = "none"
        /\ d \notin DOMAIN mem
        /\ IF checked.status # 0
           THEN /\ task' = [task EXCEPT ![d] =
                              [NoTask EXCEPT !.pc = "rejected", !.mode = mode]]
                /\ users' = checked.coll
                /\ UNCHANGED <<mem, fs, fs_failures>>
           ELSE /\ CreateSession(d, mode, saved, recorded)
                /\ users' = Refunded(checked.coll, Uid, mode, saved)
        /\ UNCHANGED <<call, GovVars, enable_historical, io,
                       stripe_sessions, req, today>>

\* execute_debate: "Mark in-progress"
MarkInProgressMutant(d, written) ==
    /\ task[d].pc = "start"
    /\ save_debate_state(d, get_debate_state(d), written)
    /\ Goto(d, "extract")
    /\ UNCHANGED <<call, GovVars, enable_historical, io, BillingVars>>

MarkInProgress(d, written) ==
    /\ task[d].pc = "start"
    /\ save_debate_state(d, Update(get_debate_state(d),
                                   [status |-> "in_progress"]), written)
    /\ Goto(d, "extract")
    /\ UNCHANGED <<call, GovVars, enable_historical, io, BillingVars>>

\* the places where execute_debate awaits a generation call
LlmSitesMutant == {"extract", "clarify", "verdict", "skeptic", "hist_embed"}

LlmSites == {"extract", "clarify", "verdict", "skeptic"}

\* extract_idea_from_prd and BaseAgent.invoke: the call enters the governor
InvokeLlm(d) ==
    /\ task[d].pc \in LlmSites
    /\ call[d].pc = "idle"
    /\ llm_call_with_limits(d, d)
    /\ UNCHANGED <<mem, fs, fs_failures, task, enable_historical, io, BillingVars>>

\* the generation call gave up: the exception reaches the handler
LlmRaised(d, written) ==
    /\ task[d].pc \in LlmSites
    /\ call[d].pc = "raised"
    /\ CaptureFailure(d, ExcOfCall(call[d].exc), "none", written)
    /\ CallDone(d)
    /\ UNCHANGED <<GovVars, enable_historical, io, BillingVars>>

\* extract_idea_from_prd returned; "Update state with idea title"
ExtractReturn(d, resp, written) ==
    /\ task[d].pc = "extract"
    /\ call[d].pc = "returned"
    /\ IF ExtractOutcome(resp) = "ok"
       THEN /\ save_debate_state(d, Update(get_debate_state(d),
                                           [extracted_structure |-> TRUE]), written)
            /\ Goto(d, "clar_start")
       ELSE CaptureFailure(d, ExtractOutcome(resp), resp, written)
    /\ CallDone(d)
    /\ UNCHANGED <<GovVars, enable_historical, io, BillingVars>>

\* "Round 1: Clarification"
ClarificationStart(d, written) ==
    /\ task[d].pc = "clar_start"
    /\ append_event(d, Event("Judge", 1, "clarification:start"), written)
    /\ Goto(d, "clarify")
    /\ UNCHANGED <<call, GovVars, enable_historical, io, BillingVars>>

AfterClarificationMutant(mode) == IF mode = "short" THEN "verdict" ELSE "round2_start"

AfterClarification(mode) == IF mode = "short" THEN "verdict_start" ELSE "round2_start"

\* judge.clarify_idea returned
ClarifyReturn(d, resp, written) ==
    /\ task[d].pc = "clarify"
    /\ call[d].pc = "returned"
    /\ IF ClarifyOutcome(resp) = "ok"
       THEN /\ append_event(d, Event("Judge", 1, "clarification:output"), written)
            /\ task' = [task EXCEPT ![d] =
                          [@ EXCEPT !.pc = AfterClarification(task[d].mode),
                                    !.produced = @ \o extract_evidence_tags("Judge", 1, resp)]]
       ELSE CaptureFailure(d, ClarifyOutcome(resp), resp, written)
    /\ CallDone(d)
    /\ UNCHANGED <<GovVars, enable_historical, io, BillingVars>>

\* short mode: the verdict follows the clarification; generate_verdict is
\* called with evidence_tags=[]
VerdictStart(d, written) ==
    /\ task[d].pc = "verdict_start"
    /\ append_event(d, Event("Judge", 2, "verdict:start"), written)
    /\ task' = [task EXCEPT ![d] =
                  [@ EXCEPT !.pc = "verdict",
                            !.verdict_args = [called |-> TRUE, evidence_tags |-> <<>>]]]
    /\ UNCHANGED <<call, GovVars, enable_historical, io, BillingVars>>

\* judge.generate_verdict returned
VerdictReturn(d, resp, written) ==
    /\ task[d].pc = "verdict"
    /\ call[d].pc = "returned"
    /\ IF VerdictOutcome(resp) = "ok"
       THEN /\ append_event(d, Event("Judge", 2, "verdict"), written)
            /\ task' = [task EXCEPT ![d] =
                          [@ EXCEPT !.pc = "complete",
                                    !.verdict = BuildVerdict(VerdictObjectOf(resp)).verdict,
                                    !.verdict_resp = resp]]
       ELSE CaptureFailure(d, VerdictOutcome(resp), resp, written)
    /\ CallDone(d)
    /\ UNCHANGED <<GovVars, enable_historical, io, BillingVars>>

\* the final snapshot of a successful run
CompletedMutant(state, verdict) ==
    Update(state, [status |-> "completed", round_status |-> "completed"])

Completed(state, verdict) ==
    Update(state, [status |-> "completed", round_status |-> "completed",
                   verdict |-> verdict])

Complete(d, written) ==
    /\ task[d].pc = "complete"
    /\ save_debate_state(d, Completed(get_debate_state(d), task[d].verdict), written)
    /\ Goto(d, "done")
    /\ UNCHANGED <<call, GovVars, enable_historical, io, BillingVars>>

\* long mode, "Round 2: Attacks/Analyses"
Round2Start(d, written) ==
    /\ task[d].pc = "round2_start"
    /\ append_event(d, Event("System", 2, "round2:start"), written)
    /\ Goto(d, IF enable_historical THEN "hist_embed" ELSE "attack_start")
    /\ UNCHANGED <<call, GovVars, enable_historical, io, BillingVars>>

\* historical enrichment: embed_texts([idea_summary])
InvokeEmbed(d) ==
    /\ task[d].pc = "hist_embed"
    /\ call[d].pc = "idle"
    /\ embeddings_call_with_limits(d)
    /\ UNCHANGED <<mem, fs, fs_failures, task, enable_historical, io, BillingVars>>

\* "Persist detected domain for downstream use"
EmbedReturn(d, written) ==
    /\ task[d].pc = "hist_embed"
    /\ call[d].pc = "returned"
    /\ save_debate_state(d, Update(get_debate_state(d),
                                   [idea_domain |-> "general"]), written)
    /\ Goto(d, "hist_retrieve")
    /\ CallDone(d)
    /\ UNCHANGED <<GovVars, enable_historical, io, BillingVars>>

\* "Skeptic attack". It is reached with enrichment disabled, after the
\* embedding call gave up ("except Exception: pass"), and after the call of
\* retrieve_similar_ideas(..., idea_text=...), which that method's signature
\* rejects with a TypeError that the same handler swallows.
AttackStart(d, written) ==
    /\ \/ task[d].pc \in {"attack_start", "hist_retrieve"} /\ call[d].pc = "idle"
       \/ task[d].pc = "hist_embed" /\ call[d].pc = "raised"
    /\ append_event(d, Event("Skeptic", 2, "attack:start"), written)
    /\ Goto(d, "skeptic")
    /\ CallDone(d)
    /\ UNCHANGED <<GovVars, enable_historical, io, BillingVars>>

\* skeptic.attack_idea returned
SkepticReturn(d, resp, written) ==
    /\ task[d].pc = "skeptic"
    /\ call[d].pc = "returned"
    /\ IF ProcessOutcome(resp) = "ok"
       THEN /\ append_event(d, Event("Skeptic", 2, "attack"), written)
            /\ task' = [task EXCEPT ![d] =
                          [@ EXCEPT !.pc = "customer_start",
                                    !.produced = @ \o extract_evidence_tags("Skeptic", 2, resp)]]
       ELSE CaptureFailure(d, ProcessOutcome(resp), resp, written)
    /\ CallDone(d)
    /\ UNCHANGED <<GovVars, enable_historical, io, BillingVars>>

\* "Customer analysis"
CustomerStart(d, written) ==
    /\ task[d].pc = "customer_start"
    /\ append_event(d, Event("Customer", 2, "customer:start"), written)
    /\ Goto(d, "customer")
    /\ UNCHANGED <<call, GovVars, enable_historical, io, BillingVars>>

\* customer.analyze_customer(..., historical_context=...): the method takes
\* no such argument, the call raises TypeError and the handler runs
CustomerCall(d, written) ==
    /\ task[d].pc = "customer"
    /\ CaptureFailure(d, ExcCustomerKwarg, "none", written)
    /\ UNCHANGED <<call, GovVars, enable_historical, io, BillingVars>>

\* the handler's error event; the task is over
AppendError(d, written) ==
    /\ task[d].pc = "error_event"
    /\ append_event(d, ErrorEvent(task[d].exc), written)
    /\ Goto(d, "done")
    /\ UNCHANGED <<call, GovVars, enable_historical, io, BillingVars>>

\* the steps of the governor inside a session's call
SessionCallStep(d) ==
    /\ GovStep(d)
    /\ UNCHANGED SessionVars

Init ==
    /\ InitCommon
    /\ InitOneUser
    /\ enable_historical \in BOOLEAN

\* Every step of a started execute_debate task but the submission itself
TaskStep(d) ==
    \/ \E written \in BOOLEAN :
          \/ MarkInProgress(d, written)
          \/ LlmRaised(d, written)
          \/ ClarificationStart(d, written)
          \/ VerdictStart(d, written)
          \/ Complete(d, written)
          \/ Round2Start(d, written)
          \/ EmbedReturn(d, written)
          \/ AttackStart(d, written)
          \/ CustomerStart(d, written)
          \/ CustomerCall(d, written)
          \/ AppendError(d, written)
          \/ \E resp \in Responses :
                \/ ExtractReturn(d, resp, written)
                \/ ClarifyReturn(d, resp, written)
                \/ VerdictReturn(d, resp, written)
                \/ SkepticReturn(d, resp, written)
    \/ InvokeLlm(d)
    \/ InvokeEmbed(d)
    \/ SessionCallStep(d)

Next ==
    \E d \in Debates :
        \/ \E mode \in Modes, saved \in BOOLEAN, recorded \in BOOLEAN :
              validate_idea(d, mode, saved, recorded)
        \/ TaskStep(d)

\* The embedding limiter is shared with the other clients of embed_texts
\* (evidence_store, idea_store, other sessions): each of GovCallers makes
\* one embedding call that succeeds.
OtherEmbedding ==
    \E c \in GovCallers :
        \/ GovCallEmbed(c)
        \/ GovResume(c)
        \/ GovOpReturns(c)

NextSess == Next \/ OtherEmbedding

Spec == Init /\ [][NextSess]_vars

\* The event loop runs every task that can run, and every external call
\* returns or raises: a started task keeps taking steps, and the embedding
\* calls of the other clients come back.
FairSpec ==
    /\ Spec
    /\ \A d \in Debates : WF_vars(TaskStep(d))
    /\ \A c \in GovCallers : WF_vars(GovResume(c) \/ GovOpReturns(c))

----------------------------------------------------------------------------
(* Worker adapter: agents/base_agent.py, on the text of a response         *)

\* A raw response is a string of tokens:
\*   ws    whitespace
\*   fj    the fence "```json"
\*   f     the fence "```"
\*   obj   the text of a JSON object (without a "claims" member)
\*   null  the text of the JSON value null
\*   txt   text that is none of these and not JSON
Tokens == {"ws", "fj", "f", "obj", "null", "txt"}

RawResponses == UNION {[1..n -> Tokens] : n \in 0..MaxRespLen}

RECURSIVE LStrip(_)
LStrip(s) == IF s # <<>> /\ Head(s) = "ws" THEN LStrip(Tail(s)) ELSE s

RECURSIVE RStrip(_)
RStrip(s) ==
    IF s # <<>> /\ s[Len(s)] = "ws" THEN RStrip(SubSeq(s, 1, Len(s) - 1)) ELSE s

\* str.strip()
Strip(s) == RStrip(LStrip(s))

\* if content.startswith("```json"): content = content[7:]
DropJsonFence(content) ==
    IF content # <<>> /\ Head(content) = "fj" THEN Tail(content) ELSE content

\* if content.startswith("```"): content = content[3:]
\* ("```json" starts with "```" as well; "json" is left of it, which is text)
DropFence(content) ==
    IF content # <<>> /\ Head(content) = "f" THEN Tail(content)
    ELSE IF content # <<>> /\ Head(content) = "fj" THEN <<"txt">> \o Tail(content)
    ELSE content

\* if content.endswith("```"): content = content[:-3]
DropEndFence(content) ==
    IF content # <<>> /\ content[Len(content)] = "f"
    THEN SubSeq(content, 1, Len(content) - 1)
    ELSE content

\* json.loads(content) on stripped text: the value, or "error" for a
\* JSONDecodeError
JsonLoads(content) ==
    IF content = <<"obj">> THEN "obj"
    ELSE IF content = <<"null">> THEN "null"
    ELSE "error"

ExcNotIterable == "argument of type 'NoneType' is not iterable"

\* What a call of the adapter gives: kind "raise" with the exception's
\* text, or a value
\*   kind "parsed"    json.loads' value
\*   kind "fallback"  {"response": content, "raw_response": response,
\*                     "parsed_as": "plain_text"}
\*   kind "result"    process_response's dict; parsed is the kind of the
\*                    dict under "response"
Raise(exc) ==
    [kind |-> "raise", exc |-> exc, value |-> "none", parsed |-> "none",
     response |-> <<>>, raw_response |-> <<>>, evidence_tags |-> <<>>]

Parsed(value) ==
    [kind |-> "parsed", exc |-> "none", value |-> value, parsed |-> "none",
     response |-> <<>>, raw_response |-> <<>>, evidence_tags |-> <<>>]

Fallback(content, response) ==
    [kind |-> "fallback", exc |-> "none", value |-> "none", parsed |-> "none",
     response |-> content, raw_response |-> response, evidence_tags |-> <<>>]

\* BaseAgent.parse_json_response
parse_json_response(response) ==
    LET content == Strip(DropEndFence(DropFence(DropJsonFence(Strip(response)))))
    IN  IF content = <<>> THEN Raise(ExcEmptyResponse)
        ELSE IF JsonLoads(content) # "error" THEN Parsed(JsonLoads(content))
        ELSE Fallback(content, response)

\* BaseAgent.process_response: parse, then extract_evidence_tags, whose
\* test '"claims" in response_data' needs a container
process_response(response) ==
    LET parsed_response == parse_json_response(response)
    IN  IF parsed_response.kind = "raise" THEN parsed_response
        ELSE IF parsed_response.kind = "parsed" /\ parsed_response.value = "null"
        THEN Raise(ExcNotIterable)
        ELSE [kind |-> "result", exc |-> "none", value |-> parsed_response.value,
              parsed |-> parsed_response.kind,
              response |-> parsed_response.response,
              raw_response |-> response, evidence_tags |-> <<>>]

Apply(fn, in, out) ==
    /\ io = NoIo
    /\ io' = [fn |-> fn, in |-> in, out |-> out]
    /\ UNCHANGED <<mem, fs, task, call, semaphores, embed_sem, counters,
                   enable_historical, fs_failures, BillingVars>>

ApplyParse(response) ==
    Apply("parse_json_response", response, parse_json_response(response))

ApplyProcess(response) ==
    Apply("process_response", response, process_response(response))

NextAdapter ==
    \E response \in RawResponses :
        \/ ApplyParse(response)
        \/ ApplyProcess(response)

SpecAdapter == InitGov /\ [][NextAdapter]_vars

\* C12: parse_json_response and process_response raise for no raw
\* response, and when the text is not valid JSON the result carries the
\* raw response.
C12_AdapterNeverRaises ==
    io.fn \in {"parse_json_response", "process_response"} =>
        /\ io.out.kind # "raise"
        /\ JsonLoads(Strip(DropEndFence(DropFence(DropJsonFence(Strip(io.in))))))
              = "error" => io.out.raw_response = io.in

----------------------------------------------------------------------------
(* Properties of the invocation governor                                   *)

RECURSIVE SumOver(_, _)
SumOver(S, f) ==
    IF S = {} THEN 0
    ELSE LET x == CHOOSE y \in S : TRUE IN f[x] + SumOver(S \ {x}, f)

\* The failed invocations of c after which with_backoff went on to retry:
\* all of them, but for the last one of a call that gave up.
RetriedFailures(c) ==
    IF call[c].pc = "raised" THEN call[c].failed - 1 ELSE call[c].failed

\* The kind every failure of c had, if they all had the same.
OnlyKind(c) ==
    IF call[c].failed429 = call[c].failed THEN "rate429"
    ELSE IF call[c].failedPermanent = call[c].failed THEN "permanent"
    ELSE IF call[c].failed429 = 0 /\ call[c].failedPermanent = 0 THEN "transient"
    ELSE "mixed"

\* C3: an operation that fails at every invocation is invoked exactly
\* max_attempts times (never more), and then with_backoff raises the
\* exception object that the last invocation raised, not a wrapper.
C3_ExhaustedRaisesOriginal ==
    \A c \in GovCallers :
        /\ call[c].failed <= call[c].max_attempts
        /\ call[c].max_attempts > 0 /\ call[c].failed = call[c].max_attempts
              => call[c].pc = "raised"
        /\ call[c].pc = "raised" =>
              /\ call[c].invocations = call[c].max_attempts
              /\ call[c].failed = call[c].invocations
              /\ call[c].exc.kind \in Failures
              /\ call[c].exc.inv = call[c].invocations
              /\ OnlyKind(c) # "mixed" => call[c].exc.kind = OnlyKind(c)

C3_Witness ==
    \E c \in GovCallers :
        /\ call[c].via = "direct"
        /\ call[c].pc = "raised"
        /\ call[c].max_attempts = 3
        /\ call[c].invocations = 3

\* C4: an operation that has failed exactly twice under max_attempts >= 3
\* is tried again and not given up; when its third invocation succeeds the
\* call returns after exactly 3 invocations, and the retry counter has
\* counted exactly 2 retries for it (on top of those of the other calls).
C4_TwoFailuresThenSuccess ==
    \A c \in GovCallers :
        call[c].failed = 2 /\ call[c].max_attempts >= 3 =>
            /\ call[c].pc \in {"sleeping", "inflight", "returned"}
            /\ call[c].pc = "returned" =>
                  /\ call[c].invocations = 3
                  /\ counters.retry =
                        2 + SumOver(GovCallers \ {c},
                                    [x \in GovCallers |-> RetriedFailures(x)])

C4_Witness ==
    \E c \in GovCallers :
        /\ call[c].pc = "returned"
        /\ call[c].failed = 2
        /\ call[c].invocations = 3
        /\ counters.retry = 2

\* The calls for one limiter key that are inside "async with sem".
InsideLimiter(key) ==
    {c \in Callers : /\ call[c].via = "llm"
                     /\ call[c].key = key
                     /\ call[c].pc \in {"inflight", "sleeping"}}

\* C5: for every debate id (and for the global key used when the id is
\* None) at most llm_max_concurrency_per_debate generation calls are in
\* flight, or sleeping between attempts, at any moment.
C5_PerDebateConcurrencyBound ==
    \A key \in Keys :
        Cardinality(InsideLimiter(key)) <= LlmMaxConcurrencyPerDebate

C5_Witness ==
    \E c1 \in GovCallers, c2 \in GovCallers :
        /\ c1 # c2
        /\ call[c1].via = "llm" /\ call[c2].via = "llm"
        /\ call[c1].key = call[c2].key
        /\ call[c1].pc = "inflight"
        /\ call[c2].pc = "waiting"

----------------------------------------------------------------------------
(* Reads: routers/arena.py                                                 *)

\* get_verdict; the verdict of the response is <<>> for None
get_verdict(d) ==
    LET state_dict == get_debate_state(d)
        status == Get(state_dict, "status", Get(state_dict, "round_status", "pending"))
    IN  IF ~Truthy(state_dict)
        THEN [code |-> 404, verdict |-> <<>>, status |-> "none"]
        ELSE IF status # "completed" \/ "verdict" \notin DOMAIN state_dict
        THEN [code |-> 200, verdict |-> <<>>, status |-> status]
        ELSE [code |-> 200, verdict |-> <<state_dict["verdict"]>>, status |-> "completed"]

----------------------------------------------------------------------------
(* Properties of the orchestrator                                          *)

Terminal == {"completed", "failed"}

IsPrefix(s, t) == Len(s) <= Len(t) /\ SubSeq(t, 1, Len(s)) = s

StatusOf(store, d) == Get(Get(store, d, EmptyDict), "status", "none")

TranscriptOf(store, d) == Get(Get(store, d, EmptyDict), "transcript", <<>>)

RoundOf(store, d) == Get(Get(store, d, EmptyDict), "current_round", 0)

Types(tr) == {tr[i].type : i \in 1..Len(tr)}

\* C1: once the stored status of a session is completed or failed, no step
\* changes it, in the in-memory snapshot and in the Firestore document.
C1_TerminalStatusIsFinal ==
    [][\A d \in Debates :
          /\ StatusOf(mem, d) \in Terminal => StatusOf(mem', d) = StatusOf(mem, d)
          /\ StatusOf(fs, d) \in Terminal => StatusOf(fs', d) = StatusOf(fs, d)]_vars

\* a failed session after the handler's error event has been stored
C1_Witness ==
    \E d \in Debates :
        /\ StatusOf(mem, d) = "failed"
        /\ StatusOf(fs, d) = "failed"
        /\ "error" \in Types(TranscriptOf(mem, d))

\* C2: the step in which an exception reaches the handler stores status
\* failed and the exception's text as the error and keeps the transcript as
\* it was; from then on the status and the error stay, the snapshot stays in
\* the store and the transcript is only extended.
C2_FailureKeepsTranscript ==
    [][\A d \in Debates :
          /\ task[d].exc = "none" /\ task'[d].exc # "none" =>
                /\ StatusOf(mem', d) = "failed"
                /\ mem'[d].error = task'[d].exc
                /\ TranscriptOf(mem', d) = TranscriptOf(mem, d)
          /\ task[d].exc # "none" =>
                /\ task'[d].exc = task[d].exc
                /\ d \in DOMAIN mem'
                /\ StatusOf(mem', d) = "failed"
                /\ mem'[d].error = task[d].exc
                /\ IsPrefix(TranscriptOf(mem, d), TranscriptOf(mem', d))]_vars

\* a session that failed after four events, with the error event stored
C2_Witness ==
    \E d \in Debates :
        /\ task[d].pc = "done"
        /\ task[d].exc # "none"
        /\ Len(TranscriptOf(mem, d)) >= 5
        /\ mem[d].error = task[d].exc

\* the rounds of the events that carry one, in transcript order
RoundsSorted(tr) ==
    \A i \in 1..Len(tr), j \in 1..Len(tr) :
        i < j /\ "round" \in DOMAIN tr[i] /\ "round" \in DOMAIN tr[j]
            => tr[i].round <= tr[j].round

\* C6: in every stored snapshot the rounds of the transcript events are
\* non-decreasing, and current_round never decreases from one snapshot to
\* the next.
C6_RoundsNeverDecrease ==
    [][\A d \in Debates :
          /\ RoundsSorted(TranscriptOf(mem', d))
          /\ RoundsSorted(TranscriptOf(fs', d))
          /\ RoundOf(mem', d) >= RoundOf(mem, d)
          /\ RoundOf(fs', d) >= RoundOf(fs, d)]_vars

\* the error event, which has no round, follows events of round 2
C6_Witness ==
    \E d \in Debates :
        LET tr == TranscriptOf(mem, d)
        IN  /\ Len(tr) >= 2
            /\ "round" \notin DOMAIN tr[Len(tr)]
            /\ tr[Len(tr) - 1].round = 2
            /\ RoundOf(mem, d) = 2

\* C7: from one stored snapshot to the next the transcript is only
\* extended: the earlier one is a prefix of the later one.
C7_TranscriptAppendOnly ==
    [][\A d \in Debates :
          /\ IsPrefix(TranscriptOf(mem, d), TranscriptOf(mem', d))
          /\ IsPrefix(TranscriptOf(fs, d), TranscriptOf(fs', d))]_vars

\* a Firestore document that missed a write and caught up two events later
C7_Witness ==
    \E d \in Debates :
        /\ fs_failures > 0
        /\ Len(TranscriptOf(fs, d)) >= 3
        /\ TranscriptOf(fs, d) = TranscriptOf(mem, d)

StartOf(site) ==
    CASE site = "clarify" -> {"clarification:start"}
      [] site = "verdict" -> {"verdict:start"}
      [] site = "hist_embed" -> {"round2:start"}
      [] site = "skeptic" -> {"round2:start", "attack:start"}
      [] site = "customer" -> {"round2:start", "customer:start"}
      [] OTHER -> {}

\* the start event an output event answers
StartOfOutput(type) ==
    CASE type = "clarification:output" -> {"clarification:start"}
      [] type = "verdict" -> {"verdict:start"}
      [] type = "attack" -> {"round2:start", "attack:start"}
      [] OTHER -> {}

\* the output events of a round that the mode's run appends
OutputsOfRound(r) == IF r = 1 THEN {"clarification:output"} ELSE {}

C10_SessionsTerminate ==
    /\ \A d \in Debates :
          (task[d].pc = "start") ~> (StatusOf(mem, d) \in Terminal)
    /\ \A c \in Callers :
          (call[c].pc = "waiting") ~> (call[c].pc # "waiting")

\* the session's embedding call is queued behind the calls of two others
C10_Witness ==
    \E d \in Debates :
        /\ call[d].pc = "waiting"
        /\ call[d].via = "embed"
        /\ StatusOf(mem, d) = "in_progress"

----------------------------------------------------------------------------
(* Properties of the failure paths of a session                            *)

\* the responses that cannot be parsed as structured data
Unparseable == {"empty", "plain"}

\* C11: no session is failed by a step that was handling a generation
\* response that cannot be parsed as structured data.
C11_UnparseableNeverFails ==
    \A d \in Debates :
        StatusOf(mem, d) = "failed" => task[d].cause.resp \notin Unparseable

\* C13: a call made through llm_call_with_limits or
\* embeddings_call_with_limits whose operation has failed with a
\* non-transient failure has invoked the operation once, has raised, and
\* has not slept.
C13_PermanentNotRetried ==
    \A c \in GovCallers :
        call[c].via \in {"llm", "embed"} /\ call[c].failedPermanent > 0 =>
            /\ call[c].pc = "raised"
            /\ call[c].invocations = 1
            /\ call[c].delay = NoDelay

\* The generation calls made for a debate id that hold a slot of its
\* limiter: in flight, sleeping in backoff, or just handed the slot.
HoldersFor(debate_id) ==
    {x \in Callers : /\ call[x].via = "llm"
                     /\ call[x].arg = debate_id
                     /\ call[x].pc \in {"inflight", "sleeping", "woken"}}

\* C14: a generation call waits on a limiter only while another call made
\* for the same debate id holds a slot: the calls of other debates, in
\* flight or in backoff, never make it wait.
C14_DebatesDoNotDelayEachOther ==
    \A c \in Callers :
        call[c].via = "llm" /\ call[c].pc = "waiting" =>
            HoldersFor(call[c].arg) \ {c} # {}

\* two debates each have a call holding the only slot of their limiter, one
\* of them sleeping in backoff
C14_Witness ==
    \E c1 \in GovCallers, c2 \in GovCallers :
        /\ call[c1].via = "llm" /\ call[c1].arg = "d1" /\ call[c1].pc = "sleeping"
        /\ call[c2].via = "llm" /\ call[c2].arg = "d2" /\ call[c2].pc = "inflight"

\* The embedding calls that are inside "async with _global_embed_semaphore".
EmbeddingsInFlight ==
    {c \in Callers : /\ call[c].via = "embed"
                     /\ call[c].pc \in {"inflight", "sleeping"}}

\* C15: at most 2 embedding calls, of all sessions and the other clients of
\* embed_texts together, are in flight at any moment.
C15_GlobalEmbeddingBound ==
    Cardinality(EmbeddingsInFlight) <= EmbedSemaphoreSize

\* two embedding calls are in flight and the session's own waits
C15_Witness ==
    /\ Cardinality(EmbeddingsInFlight) = EmbedSemaphoreSize
    /\ \E d \in Debates : call[d].via = "embed" /\ call[d].pc = "waiting"

----------------------------------------------------------------------------
(* Properties of the session store                                         *)

\* The type of the event the task of d appended last, by the position the
\* task has reached ("none" before the first append and inside the handler)
LastAppended(d) ==
    LET pc == task[d].pc
    IN  CASE pc = "clarify" -> "clarification:start"
          [] pc \in {"verdict_start", "round2_start"} -> "clarification:output"
          [] pc = "verdict" -> "verdict:start"
          [] pc = "complete" -> "verdict"
          [] pc \in {"hist_embed", "hist_retrieve", "attack_start"} -> "round2:start"
          [] pc = "skeptic" -> "attack:start"
          [] pc = "customer_start" -> "attack"
          [] pc = "customer" -> "customer:start"
          [] pc = "done" -> IF task[d].exc = "none" THEN "verdict" ELSE "error"
          [] OTHER -> "none"

\* C16: after each append_event the snapshot that get_debate_state reads
\* back has a transcript that ends with the event just appended, and as
\* long as no Firestore write has failed the document is the whole
\* snapshot.
C16_AppendIsSaved ==
    \A d \in Debates :
        LastAppended(d) # "none" =>
            LET tr == Get(get_debate_state(d), "transcript", <<>>)
            IN  /\ tr # <<>>
                /\ tr[Len(tr)].type = LastAppended(d)
                /\ fs_failures = 0 => d \in DOMAIN fs /\ fs[d] = mem[d]

\* the Firestore write of the verdict:start append failed; the event is
\* read back all the same
C16_Witness ==
    \E d \in Debates :
        LET tr == Get(get_debate_state(d), "transcript", <<>>)
        IN  /\ task[d].pc = "verdict"
            /\ Len(tr) = 3
            /\ tr[3].type = "verdict:start"
            /\ Len(TranscriptOf(fs, d)) = 2

\* the positions from which the next step of the task is a write and
\* nothing else
WriteSteps ==
    {"start", "clar_start", "verdict_start", "complete", "round2_start",
     "attack_start", "hist_retrieve", "customer_start"}

\* C17: a step whose Firestore write fails still advances the task and
\* the in-memory snapshot and does not fail the session; and every step
\* that changes the Firestore document of a session leaves it equal to
\* the in-memory snapshot, with every transcript event appended so far.
C17_FailedWriteIsMadeUp ==
    [][\A d \in Debates :
          /\ fs_failures' > fs_failures /\ task[d].pc \in WriteSteps =>
                /\ task'[d].pc \notin {task[d].pc, "error_event"}
                /\ task'[d].exc = "none"
                /\ mem'[d] # mem[d]
          /\ d \in DOMAIN fs' /\ (d \notin DOMAIN fs \/ fs'[d] # fs[d]) =>
                /\ fs'[d] = mem'[d]
                /\ TranscriptOf(fs', d) = TranscriptOf(mem', d)]_vars

\* a write failed while the session ran, and a later one has brought the
\* document up to the in-memory snapshot
C17_Witness ==
    \E d \in Debates :
        /\ fs_failures > 0
        /\ StatusOf(mem, d) = "in_progress"
        /\ d \in DOMAIN fs
        /\ fs[d] = mem[d]
        /\ Len(TranscriptOf(fs, d)) >= 2

\* C18: when the write of the initial snapshot fails, validate_idea ends
\* with an error and starts no task; and a debate whose submission ended
\* with an error never gets a task: its position, its snapshot and its
\* (absent) generation call stay as they are.
C18_FailedSubmitStartsNothing ==
    [][\A d \in Debates :
          /\ (task[d].pc = "none" /\ task'[d].pc # "none"
                                    /\ fs_failures' > fs_failures)
                => task'[d].pc = "rejected"
          /\ task[d].pc = "rejected" =>
                /\ task'[d] = task[d]
                /\ mem'[d] = mem[d]
                /\ call'[d] = IdleCall
                /\ Get(fs', d, EmptyDict) = Get(fs, d, EmptyDict)]_vars

\* the submission was rejected because the initial snapshot could not be
\* written; the other clients go on
C18_Witness ==
    \E d \in Debates :
        /\ task[d].pc = "rejected"
        /\ fs_failures = 1
        /\ d \notin DOMAIN fs
        /\ \E c \in GovCallers : call[c].pc = "returned"

----------------------------------------------------------------------------
(* Properties of the two modes                                             *)

\* The responses that are valid structured output for the step that
\* receives them: a JSON object, and for the verdict one with the fields
\* of a valid Verdict
WellFormed(site) ==
    IF site = "verdict" THEN {"json_verdict", "json_verdict_default"}
    ELSE Responses \ {"empty", "plain", "json_array"}

\* The session failed although every generation call had returned and
\* every response was valid structured output.
FailedOnItsOwn(d) ==
    /\ task[d].exc # "none"
    /\ ~task[d].cause.gave_up
    /\ task[d].cause.resp = "none" \/ task[d].cause.resp \in WellFormed(task[d].cause.site)

StartTypes ==
    {"clarification:start", "verdict:start", "round2:start", "attack:start",
     "customer:start"}

OutputTypes == {"clarification:output", "verdict", "attack"}

CountOf(tr, types) == Cardinality({i \in 1..Len(tr) : tr[i].type \in types})

RoundsOf(tr) == {tr[i].round : i \in {j \in 1..Len(tr) : "round" \in DOMAIN tr[j]}}

\* C19: a short-mode session fails only when a generation call gives up
\* or the handling of a response raises; its status is pending until the
\* task starts and in_progress from then until the end; and once the
\* verdict call has returned a valid verdict the session does not fail:
\* when the task is over it is completed, with exactly two phase-start
\* events (clarification:start in round 1, verdict:start in round 2) and
\* at least two output events.
C19_ShortModeCompletes ==
    \A d \in Debates :
        task[d].mode = "short" =>
            LET tr == TranscriptOf(mem, d)
            IN  /\ task[d].exc # "none" =>
                      task[d].cause.gave_up \/ task[d].cause.resp # "none"
                /\ task[d].pc = "start" => StatusOf(mem, d) = "pending"
                /\ task[d].pc \notin {"none", "rejected", "start", "done"}
                      /\ task[d].exc = "none" => StatusOf(mem, d) = "in_progress"
                /\ task[d].pc = "complete" => task[d].exc = "none"
                /\ task[d].pc = "done" /\ task[d].exc = "none" =>
                      /\ StatusOf(mem, d) = "completed"
                      /\ CountOf(tr, StartTypes) = 2
                      /\ tr[1] = Event("Judge", 1, "clarification:start")
                      /\ tr[3] = Event("Judge", 2, "verdict:start")
                      /\ CountOf(tr, OutputTypes) >= 2

\* a short run that is over and completed, all of its writes stored
C19_Witness ==
    \E d \in Debates :
        /\ task[d].mode = "short"
        /\ task[d].pc = "done"
        /\ StatusOf(fs, d) = "completed"
        /\ CountOf(TranscriptOf(fs, d), StartTypes) = 2
        /\ CountOf(TranscriptOf(fs, d), OutputTypes) = 2

\* the steps of the clarification stage and before it
Round1Sites == {"extract", "clarify"}

\* C20: a long-mode session that is past the clarification stage and
\* whose worker calls all return valid structured output does not fail,
\* and when its task is over it is completed with a verdict and has run
\* the rounds 1 to 5.
C20_LongModeFiveStages ==
    \A d \in Debates :
        task[d].mode = "long" =>
            /\ ~(FailedOnItsOwn(d) /\ task[d].cause.site \notin Round1Sites)
            /\ task[d].pc = "done" /\ task[d].exc = "none" =>
                  /\ StatusOf(mem, d) = "completed"
                  /\ "verdict" \in DOMAIN mem[d]
                  /\ RoundsOf(TranscriptOf(mem, d)) = 1..5

----------------------------------------------------------------------------
(* Properties of the evidence list                                         *)

\* the cumulative evidence list of the stored session state
EvidenceOf(store, d) == Get(Get(store, d, EmptyDict), "evidence_tags", <<>>)

InSeq(x, s) == \E i \in 1..Len(s) : s[i] = x

\* C21: once the task of a session is over, every evidence claim that a
\* worker of the session returned is in the session's stored evidence
\* list (evidence_tags).
C21_EvidencePersisted ==
    \A d \in Debates :
        task[d].pc = "done" =>
            \A i \in 1..Len(task[d].produced) :
                InSeq(task[d].produced[i], EvidenceOf(mem, d))

\* The pure function extract_evidence_tags on its own: every agent name,
\* round and parsed object with a claims array of up to MaxClaims entries,
\* a null claims member, or no claims member.
MaxClaims == 3

AgentNames == {"Judge", "Skeptic"}

RoundNumbers == {1, 2}

ClaimsArrays == UNION {[1..n -> ClaimEntries] : n \in 0..MaxClaims}

ClaimsValues == {JsonNull} \cup {JsonArray(c) : c \in ClaimsArrays}

ApplyExtract(agent, response_data, round_number) ==
    Apply("extract_evidence_tags",
          [agent |-> agent, response_data |-> response_data,
           round_number |-> round_number],
          extract_evidence_tags_of(agent, response_data, round_number))

NextTags ==
    /\ io = NoIo
    /\ \E agent \in AgentNames, round_number \in RoundNumbers :
          \/ ApplyExtract(agent, EmptyDict, round_number)
          \/ \E c \in ClaimsValues :
                ApplyExtract(agent, [claims |-> c], round_number)

SpecTags == InitGov /\ [][NextTags]_vars

\* the entries of a claims array that have a text and a type of the closed
\* set
HasTextAndType(claim) ==
    /\ claim.dict
    /\ claim.text \in {"t1", "t2"}
    /\ claim.type \in {"evidence", "assumption", "needs_validation"}

----------------------------------------------------------------------------
(* Properties of the quality gate                                          *)

----------------------------------------------------------------------------
(* Properties of the historical enrichment                                 *)

\* the steps inside the try block of the enrichment
EnrichmentSites == {"hist_embed", "hist_retrieve"}

\* C24: a session that is inside the historical enrichment leaves it only
\* for the Skeptic's analysis, with its status unchanged and no exception
\* recorded, whether the embedding call returned or gave up and although
\* the retrieval raises; no historical_context event is written; and no
\* session records a failure that came from the enrichment, so a session
\* ends as it does with the enrichment disabled.
C24_EnrichmentFailureIsSkipped ==
    [][\A d \in Debates :
          /\ task[d].pc \in EnrichmentSites =>
                /\ task'[d].pc \in EnrichmentSites \cup {"skeptic"}
                /\ task'[d].exc = "none"
                /\ StatusOf(mem', d) = StatusOf(mem, d)
                /\ "historical_context" \notin Types(TranscriptOf(mem', d))
          /\ task'[d].cause.site \notin EnrichmentSites]_vars

\* the embedding call gave up (no detected domain was stored) and the
\* Skeptic's analysis has started all the same
C24_Witness ==
    \E d \in Debates :
        /\ enable_historical
        /\ task[d].pc = "skeptic"
        /\ "idea_domain" \notin DOMAIN mem[d]
        /\ Types(TranscriptOf(mem, d)) =
              {"clarification:start", "clarification:output", "round2:start",
               "attack:start"}

----------------------------------------------------------------------------
(* Properties of the verdict                                               *)

\* the stored verdict is within the bounds of the Verdict model
VerdictInBounds(v) ==
    /\ v.confidence \in 0..100
    /\ v.score \in 0..100
    /\ v.kill_shots <= 5
    /\ v.test_plan <= 7

\* the verdict responses that break a bound
OutOfBounds ==
    {"json_bad_verdict", "json_bad_score", "json_bad_kill_shots",
     "json_bad_test_plan"}

\* the verdict responses without a member that generate_verdict indexes
\* (decision, scorecard, kill_shots, assumptions, test_plan, reasoning)
MissesIndexed == {"json", "json_claims"}

\* the verdict response without the member confidence, which Verdict
\* declares as required and generate_verdict reads with a default
MissesConfidence == {"json_verdict_default"}

\* the response the verdict step of the session received, if it has
VerdictResponse(d) ==
    IF task[d].verdict_resp # "none" THEN task[d].verdict_resp
    ELSE IF task[d].cause.site = "verdict" THEN task[d].cause.resp
    ELSE "none"

\* every verdict of a completed session is in bounds, and a session whose
\* verdict response is one of bad has not completed and, once its task is
\* over, is failed with the exception's text as its error
VerdictChecked(bad) ==
    \A d \in Debates :
        /\ \A store \in {mem, fs} :
              StatusOf(store, d) = "completed" => VerdictInBounds(store[d].verdict)
        /\ VerdictResponse(d) \in bad =>
              /\ StatusOf(mem, d) # "completed"
              /\ task[d].pc # "complete"
              /\ task[d].pc = "done" =>
                    /\ StatusOf(mem, d) = "failed"
                    /\ Get(mem[d], "error", "none") =
                          (IF VerdictResponse(d) \in OutOfBounds
                           THEN ExcVerdictValidation ELSE ExcKeyDecision)

\* C25 as stated: confidence in [0,1], every scorecard dimension in
\* [0,100], at most 5 kill shots and 7 test-plan items on every completed
\* session, and a verdict response that misses a required field of
\* Verdict (confidence among them) or breaks a bound ends in failed with
\* the exception's text, never in completed.
C25_VerdictValidated ==
    VerdictChecked(OutOfBounds \cup MissesIndexed \cup MissesConfidence)

\* C25 amended: the same for the responses that break a bound or miss one
\* of the members generate_verdict indexes; a response that misses only
\* the confidence completes with confidence 0.5.
C25_VerdictValidatedAmended ==
    /\ VerdictChecked(OutOfBounds \cup MissesIndexed)
    /\ \A d \in Debates :
          VerdictResponse(d) \in MissesConfidence /\ task[d].pc = "done" =>
              /\ StatusOf(mem, d) = "completed"
              /\ mem[d].verdict.confidence = 50

\* a session that failed on a verdict with six kill shots
C25_Witness ==
    \E d \in Debates :
        /\ task[d].pc = "done"
        /\ VerdictResponse(d) = "json_bad_kill_shots"
        /\ StatusOf(fs, d) = "failed"
        /\ Get(fs[d], "error", "none") = ExcVerdictValidation

----------------------------------------------------------------------------
(* The precedent ranking: ml/ranking.py, vectorstore/historical_store.py   *)
(* Scores, lambda and similarities are in hundredths.                      *)

MaxPool == 2

\* An embedding is absent (None or []) or a unit vector along an axis, so
\* that every norm is 1 and every cosine similarity is 0 or 1
Embeddings == {<<>>, <<1, 0>>, <<0, 1>>}

\* metadata: the domain tag and the prior decision
Metadatas ==
    {[domain |-> "fintech", verdict_decision |-> "Kill"],
     [domain |-> "health", verdict_decision |-> "Pivot"]}

RankerScores == {0, 50, 100}

\* Candidate; id is the candidate's place in the pool
CandidatePools ==
    UNION {[1..n -> [ranker_score : RankerScores, embedding : Embeddings,
                     metadata : Metadatas]] : n \in 0..MaxPool}

WithIds(pool) ==
    [i \in 1..Len(pool) |->
        [id |-> i, ranker_score |-> pool[i].ranker_score,
         embedding |-> pool[i].embedding, metadata |-> pool[i].metadata]]

Lambdas == {0, 60, 100}

RequestedCounts == 0..MaxPool

RECURSIVE Dot(_, _)
Dot(vec_a, vec_b) ==
    IF vec_a = <<>> THEN 0
    ELSE Head(vec_a) * Head(vec_b) + Dot(Tail(vec_a), Tail(vec_b))

\* cosine_similarity; the square root of a norm that is 0 or 1 is itself
cosine_similarity(vec_a, vec_b) ==
    IF vec_a = <<>> \/ vec_b = <<>> \/ Len(vec_a) # Len(vec_b) THEN 0
    ELSE IF Dot(vec_a, vec_a) = 0 \/ Dot(vec_b, vec_b) = 0 THEN 0
    ELSE (100 * Dot(vec_a, vec_b)) \div (Dot(vec_a, vec_a) * Dot(vec_b, vec_b))

\* list.sort(key=..., reverse=True) is stable: a candidate goes behind
\* those of the same score that came before it
RECURSIVE InsertByKey(_, _, _)
InsertByKey(places, x, keys) ==
    IF places = <<>> THEN <<x>>
    ELSE IF keys[Head(places)] >= keys[x]
         THEN <<Head(places)>> \o InsertByKey(Tail(places), x, keys)
         ELSE <<x>> \o places

\* the places 1..n of keys in the order of the sorted list
RECURSIVE SortedPlaces(_, _)
SortedPlaces(n, keys) ==
    IF n = 0 THEN <<>>
    ELSE InsertByKey(SortedPlaces(n - 1, keys), n, keys)

SortDescending(s, keys) ==
    [j \in 1..Len(s) |-> s[SortedPlaces(Len(s), keys)[j]]]

RankerScoresOf(candidates) ==
    [i \in 1..Len(candidates) |-> candidates[i].ranker_score]

\* max(cosine_similarity(candidate.embedding, s.embedding)
\*     if s.embedding else 0.0 for s in selected)
RECURSIVE MaxSim(_, _)
MaxSim(candidate, selected) ==
    LET sim == IF Head(selected).embedding # <<>>
               THEN cosine_similarity(candidate.embedding, Head(selected).embedding)
               ELSE 0
    IN  IF Len(selected) = 1 THEN sim
        ELSE IF sim >= MaxSim(candidate, Tail(selected)) THEN sim
        ELSE MaxSim(candidate, Tail(selected))

\* mmr_score, in ten-thousandths
MmrScore(candidate, selected, lambda_mult) ==
    lambda_mult * candidate.ranker_score
        - (IF selected # <<>> /\ candidate.embedding # <<>>
           THEN (100 - lambda_mult) * MaxSim(candidate, selected)
           ELSE 0)

\* best_score = -1.0
BestScoreStart == -10000

\* the for loop over remaining from place i on: the place of the best
\* candidate so far (0 is None) and its score
RECURSIVE BestOf(_, _, _, _, _)
BestOf(remaining, i, selected, lambda_mult, best) ==
    IF i > Len(remaining) THEN best
    ELSE BestOf(remaining, i + 1, selected, lambda_mult,
                IF MmrScore(remaining[i], selected, lambda_mult) > best.score
                THEN [place |-> i,
                      score |-> MmrScore(remaining[i], selected, lambda_mult)]
                ELSE best)

RemoveAt(s, i) == SubSeq(s, 1, i - 1) \o SubSeq(s, i + 1, Len(s))

\* while remaining and len(selected) < k
RECURSIVE MmrLoop(_, _, _, _)
MmrLoop(remaining, selected, lambda_mult, k) ==
    IF remaining = <<>> \/ Len(selected) >= k THEN selected
    ELSE LET best == BestOf(remaining, 1, selected, lambda_mult,
                            [place |-> 0, score |-> BestScoreStart])
         IN  IF best.place = 0 THEN selected
             ELSE MmrLoop(RemoveAt(remaining, best.place),
                          Append(selected, remaining[best.place]),
                          lambda_mult, k)

DiversityStats(selected) ==
    [num_unique_domains |->
        Cardinality({selected[i].metadata.domain : i \in 1..Len(selected)}),
     num_unique_verdicts |->
        Cardinality({selected[i].metadata.verdict_decision : i \in 1..Len(selected)})]

\* mmr_select(candidates, query_embedding, lambda_mult, k); the query
\* embedding is not read
MmrSelectMutant(candidates, lambda_mult, k) ==
    IF candidates = <<>> \/ k < 1
    THEN [selected |-> <<>>,
          stats |-> [num_unique_domains |-> 0, num_unique_verdicts |-> 0]]
    ELSE LET remaining == SortDescending(candidates, RankerScoresOf(candidates))
             selected == MmrLoop(Tail(remaining), <<Head(remaining)>>, lambda_mult, k)
         IN  [selected |-> selected, stats |-> DiversityStats(selected)]

mmr_select(candidates, lambda_mult, k) ==
    IF candidates = <<>>
    THEN [selected |-> <<>>,
          stats |-> [num_unique_domains |-> 0, num_unique_verdicts |-> 0]]
    ELSE LET remaining == SortDescending(candidates, RankerScoresOf(candidates))
             selected == MmrLoop(Tail(remaining), <<Head(remaining)>>, lambda_mult, k)
         IN  [selected |-> selected, stats |-> DiversityStats(selected)]

ApplyMmr(candidates, lambda_mult, k) ==
    Apply("mmr_select",
          [candidates |-> candidates, lambda_mult |-> lambda_mult, k |-> k],
          mmr_select(candidates, lambda_mult, k))

\* The candidates of _diversity_rerank: dicts with a composite score (in
\* thousandths), a prior decision and a domain
\* most candidates handed to _diversity_rerank
MaxCandidates == 3

RerankPools ==
    UNION {[1..n -> [composite_score : {0, 500, 1000},
                     verdict_decision : {"Kill", "Pivot"},
                     domain : {"fintech", "health"}]] : n \in 0..MaxCandidates}

\* the candidates with the ids of their index rows
Identified(candidates) ==
    [i \in 1..Len(candidates) |->
        [id |-> i, composite_score |-> candidates[i].composite_score,
         verdict_decision |-> candidates[i].verdict_decision,
         domain |-> candidates[i].domain]]

CompositeScoresOf(candidates) ==
    [i \in 1..Len(candidates) |-> candidates[i].composite_score]

\* the for loop of _diversity_rerank over candidates_sorted
RECURSIVE RerankLoop(_, _, _, _, _)
RerankLoop(candidates_sorted, final_results, used_verdicts, used_domains, n_results) ==
    IF candidates_sorted = <<>> \/ Len(final_results) >= n_results
    THEN final_results
    ELSE LET candidate == Head(candidates_sorted)
             verdict_is_new == candidate.verdict_decision \notin used_verdicts
             domain_is_new == candidate.domain \notin used_domains
         IN  IF \/ Len(final_results) = 0
                \/ verdict_is_new \/ domain_is_new
                \/ Len(final_results) < n_results
             THEN RerankLoop(Tail(candidates_sorted),
                             Append(final_results, candidate),
                             used_verdicts \cup {candidate.verdict_decision},
                             used_domains \cup {candidate.domain}, n_results)
             ELSE RerankLoop(Tail(candidates_sorted), final_results,
                             used_verdicts, used_domains, n_results)

\* HistoricalStore._diversity_rerank; primary_domain is not read
diversity_rerank(candidates, n_results) ==
    IF candidates = <<>> THEN <<>>
    ELSE RerankLoop(SortDescending(candidates, CompositeScoresOf(candidates)),
                    <<>>, {}, {}, n_results)

ApplyRerank(candidates, n_results) ==
    Apply("_diversity_rerank",
          [candidates |-> candidates, n_results |-> n_results],
          diversity_rerank(candidates, n_results))

\* The rows the vector index holds for a query, nearest first: whether
\* the document parses (json.loads), the distance, and the metadata
MaxRows == 2

IndexRows ==
    UNION {[1..n -> [ok : BOOLEAN, distance : {0, 1},
                     verdict_decision : {"Kill", "Pivot"},
                     domain : {"fintech", "health"}]] : n \in 0..MaxRows}

DomainFilters == {"none", "fintech"}

\* composite_score = semantic_score + domain_bonus + confidence_bonus, in
\* thousandths; the rows carry no confidence, which counts as 0.5
CompositeScore(row, domain_filter) ==
    (1000 - Min(row.distance * 500, 1000))
        + (IF domain_filter # "none" /\ row.domain = domain_filter THEN 100 ELSE 0)

\* "Step 2: Parse and score results"; a row that does not parse is skipped
RECURSIVE ScoredCandidates(_, _)
ScoredCandidates(rows, domain_filter) ==
    IF rows = <<>> THEN <<>>
    ELSE (IF Head(rows).ok
          THEN <<[composite_score |-> CompositeScore(Head(rows), domain_filter),
                  verdict_decision |-> Head(rows).verdict_decision,
                  domain |-> Head(rows).domain,
                  distance |-> Head(rows).distance]>>
          ELSE <<>>) \o ScoredCandidates(Tail(rows), domain_filter)

\* "Clean up scoring fields before returning"
PublicResults(final_results) ==
    [i \in 1..Len(final_results) |->
        [verdict_decision |-> final_results[i].verdict_decision,
         domain |-> final_results[i].domain,
         distance |-> final_results[i].distance]]

\* HistoricalStore.retrieve_similar_ideas: the index gives the nearest
\* n_results * 3 rows
retrieve_similar_ideas(enabled, rows, n_results, domain_filter) ==
    IF ~enabled THEN <<>>
    ELSE LET results == SubSeq(rows, 1, Min(n_results * 3, Len(rows)))
             candidates == ScoredCandidates(results, domain_filter)
         IN  PublicResults(diversity_rerank(candidates, n_results))

ApplyRetrieve(enabled, rows, n_results, domain_filter) ==
    Apply("retrieve_similar_ideas",
          [enabled |-> enabled, rows |-> rows, n_results |-> n_results,
           domain_filter |-> domain_filter],
          retrieve_similar_ideas(enabled, rows, n_results, domain_filter))

NextRanking ==
    /\ io = NoIo
    /\ \/ \E pool \in CandidatePools, lambda_mult \in Lambdas, k \in RequestedCounts :
             ApplyMmr(WithIds(pool), lambda_mult, k)
       \/ \E candidates \in RerankPools, n_results \in 0..MaxCandidates :
             ApplyRerank(Identified(candidates), n_results)
       \/ \E enabled \in BOOLEAN, rows \in IndexRows, n_results \in RequestedCounts,
             domain_filter \in DomainFilters :
             ApplyRetrieve(enabled, rows, n_results, domain_filter)

SpecRanking == InitGov /\ [][NextRanking]_vars

\* the largest ranker score of a pool
IsMaxScore(x, candidates) ==
    /\ \E i \in 1..Len(candidates) : candidates[i].ranker_score = x
    /\ \A i \in 1..Len(candidates) : candidates[i].ranker_score <= x

\* C26: mmr_select with k >= 1 over n >= k candidates returns exactly k
\* candidates, all of them from the input and no two the same, the first
\* with the largest ranker score of the input.
C26_MmrSelectsK ==
    io.fn = "mmr_select" /\ io.in.k >= 1 /\ Len(io.in.candidates) >= io.in.k =>
        LET selected == io.out.selected
        IN  /\ Len(selected) = io.in.k
            /\ \A i \in 1..Len(selected) : InSeq(selected[i], io.in.candidates)
            /\ \A i, j \in 1..Len(selected) : i # j => selected[i].id # selected[j].id
            /\ IsMaxScore(selected[1].ranker_score, io.in.candidates)

\* C27: mmr_select returns at most k candidates, and _diversity_rerank and
\* retrieve_similar_ideas at most n_results.
C27_AtMostRequested ==
    /\ io.fn = "mmr_select" => Len(io.out.selected) <= io.in.k
    /\ io.fn \in {"_diversity_rerank", "retrieve_similar_ideas"} =>
          Len(io.out) <= io.in.n_results

\* C28: over an empty pool mmr_select returns nothing and counts no
\* domain and no decision; over a single candidate it returns that
\* candidate as it was given and counts one domain and one decision, for
\* every lambda and every k.
C28_MmrEdgeCases ==
    io.fn = "mmr_select" =>
        /\ io.in.candidates = <<>> =>
              /\ io.out.selected = <<>>
              /\ io.out.stats = [num_unique_domains |-> 0, num_unique_verdicts |-> 0]
        /\ Len(io.in.candidates) = 1 =>
              /\ io.out.selected = io.in.candidates
              /\ io.out.stats = [num_unique_domains |-> 1, num_unique_verdicts |-> 1]

\* a single candidate without an embedding, lambda 0
C28_Witness ==
    /\ io.fn = "mmr_select"
    /\ Len(io.in.candidates) = 1
    /\ io.in.lambda_mult = 0
    /\ io.in.candidates[1].embedding = <<>>
    /\ io.out.selected = io.in.candidates

----------------------------------------------------------------------------
(* Properties of the evidence the verdict step receives                    *)

----------------------------------------------------------------------------
(* Properties of the rate-limit counter                                    *)

\* C30: every failed attempt of a call whose failure signals rate limiting
\* adds exactly one to the rate-limit counter, and no other step changes
\* that counter.
C30_Every429Counted ==
    [][/\ \A c \in GovCallers :
             call'[c].failed429 = call[c].failed429 + 1 =>
                 counters'.r429 = counters.r429 + 1
       /\ (\A c \in GovCallers : call'[c].failed429 # call[c].failed429 + 1) =>
             counters'.r429 = counters.r429]_vars

----------------------------------------------------------------------------
(* Limiter slots over a whole retry sequence (SpecGov)                     *)

\* the callers that are between entering and leaving the "async with" of
\* the limiter of this scope: blocked in acquire, or inside with_backoff
CallsInFlight(via, key) ==
    {c \in Callers : /\ call[c].via = via
                     /\ call[c].key = key
                     /\ call[c].pc \in {"waiting", "woken", "inflight", "sleeping"}}

\* those of them that own a slot: inside with_backoff (invoking the
\* operation or in a backoff sleep), or handed the slot by a release
SlotHolders(via, key) ==
    {c \in CallsInFlight(via, key) : call[c].pc # "waiting"}

SlotsKept(sem, via, key, size) ==
    /\ sem.value + Cardinality(SlotHolders(via, key)) = size
    /\ CallsInFlight(via, key) = {} => sem.value = size /\ sem.waiters = <<>>

\* C31: the slot a call takes from its limiter is held through every
\* attempt and every backoff sleep and is given back when the call returns
\* or raises: the free slots and the calls holding one always add up to the
\* limiter's size, and a scope with no call in flight has all slots free
C31_SlotHeldUntilCallEnds ==
    /\ \A key \in DOMAIN semaphores :
          SlotsKept(semaphores[key], "llm", key, LlmMaxConcurrencyPerDebate)
    /\ SlotsKept(embed_sem, "embed", "embed", EmbedSemaphoreSize)

\* a limited generation call has exhausted its retries and raised, nothing
\* else is in flight for its scope, and the scope's slot is free again
C31_Witness ==
    \E c \in Callers :
        /\ call[c].pc = "raised"
        /\ call[c].via = "llm"
        /\ call[c].failed = LlmBackoffMaxAttempts
        /\ CallsInFlight("llm", call[c].key) = {}
        /\ semaphores[call[c].key].value = LlmMaxConcurrencyPerDebate

----------------------------------------------------------------------------
(* Phase status of a finished session                                      *)

\* GET /debate/{id} answered to the session's owner: the status fields of
\* the DebateResponse
get_debate(d) ==
    LET state_dict == get_debate_state(d)
    IN  IF ~Truthy(state_dict)
        THEN [code |-> 404, status |-> "none", current_round |-> 0,
              round_status |-> "none"]
        ELSE [code |-> 200,
              status |-> Get(state_dict, "status", "pending"),
              current_round |-> Get(state_dict, "current_round", 0),
              round_status |-> Get(state_dict, "round_status",
                                   Get(state_dict, "status", "pending"))]

\* C32: once a session's execute_debate task has finished, the phase status
\* the snapshot read reports equals the status: both completed or both
\* failed
C32_RoundStatusIsStatus ==
    \A d \in Debates :
        task[d].pc = "done" =>
            /\ get_debate(d).status \in Terminal
            /\ get_debate(d).round_status = get_debate(d).status

----------------------------------------------------------------------------
(* Requests of one user: submits and webhook deliveries (SpecBilling)      *)

\* largest credit balance of the user before the requests
MaxCredits == 3
\* the last day the clock reaches
MaxDay == 2

\* the "starter" pack of _get_pack_config, bought in mode "payment"
PackCredits == 12

\* the id of the paid Checkout session every delivery is about
StripeSession == "cs_1"

OrchestratorVars ==
    <<mem, fs, task, call, semaphores, embed_sem, counters,
      enable_historical, fs_failures, io>>

\* the request ends with this HTTP status
Finish(r, status, exc) ==
    [req[r] EXCEPT !.pc = "done", !.status = status, !.exc = exc,
                   !.snapshot = NoSnapshot]

\* the steps of a request that are a transaction on the user's document
Transactions == {"limit", "consume", "refund", "grant"}

\* "credit_cost = VALIDATION_CREDIT_COSTS[request.mode]",
\* "if credit_cost > 0"
AfterLimit(mode) ==
    IF ValidationCreditCosts[mode] > 0 THEN "consume" ELSE "create"

\* POST /validate arrives; for the short mode the line checks pass and
\* _enforce_quick_roast_limit reads the clock
SubmitArrives(r, mode) ==
    /\ req[r].pc = "idle"
    /\ req' = [req EXCEPT ![r] =
                 [IdleRequest EXCEPT
                    !.kind = "submit", !.mode = mode,
                    !.day = IF mode = "short" THEN today ELSE 0,
                    !.pc = IF mode = "short" THEN "limit" ELSE AfterLimit(mode)]]
    /\ UNCHANGED <<users, stripe_sessions, today, OrchestratorVars>>

\* what the function of the request's transaction does on a snapshot
Outcome(r, snapshot) ==
    CASE req[r].pc = "limit" -> QuickRoastUpdate(snapshot, req[r].day)
      [] req[r].pc = "consume" ->
            Consume(snapshot, ValidationCreditCosts[req[r].mode])
      [] req[r].pc = "refund" ->
            Grant(snapshot, ValidationCreditCosts[req[r].mode])
      [] req[r].pc = "grant" -> Grant(snapshot, PackCredits)

\* the status of the response when the function raises: validate_idea
\* maps the exception to an HTTPException, which its "except Exception"
\* catches; in stripe_webhook it is not caught
StatusOfRaise(r, exc) ==
    CASE req[r].pc = "limit" -> StatusRaised(429)
      [] req[r].pc = "consume" ->
            StatusRaised(IF exc = "InsufficientCreditsError" THEN 402 ELSE 404)
      [] req[r].pc = "refund" -> StatusRaised(500)
      [] req[r].pc = "grant" -> 500

\* the transaction reads the user's document and runs its function; when
\* the function raises, nothing is written
TransactionRuns(r) ==
    LET snapshot == DocumentSnapshot(users, Uid)
        outcome == Outcome(r, snapshot)
    IN  /\ req[r].pc \in Transactions
        /\ ~req[r].committing
        /\ req' = [req EXCEPT ![r] =
                     IF outcome.exc # "none"
                     THEN Finish(r, StatusOfRaise(r, outcome.exc), outcome.exc)
                     ELSE [@ EXCEPT !.snapshot = snapshot,
                                    !.committing = TRUE]]
        /\ UNCHANGED <<users, stripe_sessions, today, OrchestratorVars>>

\* the request after its transaction has committed
Committed(r) ==
    LET done == [req[r] EXCEPT !.snapshot = NoSnapshot, !.committing = FALSE]
    IN  CASE req[r].pc = "limit" ->
                [done EXCEPT !.passed = TRUE, !.pc = AfterLimit(req[r].mode)]
          [] req[r].pc = "consume" ->
                [done EXCEPT !.consumed = ValidationCreditCosts[req[r].mode],
                             !.pc = "create"]
          [] req[r].pc = "refund" ->
                [done EXCEPT !.pc = "done", !.status = StatusRaised(500)]
          [] req[r].pc = "grant" ->
                [done EXCEPT !.granted = @ + 1, !.pc = "mark"]

\* the commit: the writes of the function are applied, or the transaction
\* starts again because the document has been written in between (the
\* other requests write the document fewer times than the five attempts
\* a transaction has)
TransactionCommits(r) ==
    /\ req[r].pc \in Transactions
    /\ req[r].committing
    /\ IF Commits(req[r].snapshot, users, Uid)
       THEN /\ users' = SetMerge(users, Uid,
                                 Outcome(r, req[r].snapshot).fields)
            /\ req' = [req EXCEPT ![r] = Committed(r)]
       ELSE /\ req' = [req EXCEPT ![r] =
                         [@ EXCEPT !.snapshot = NoSnapshot,
                                   !.committing = FALSE]]
            /\ UNCHANGED users
    /\ UNCHANGED <<stripe_sessions, today, OrchestratorVars>>

\* validate_idea from the debate id on: the initial snapshot, the
\* "verdicts" document and create_task; a failed snapshot write hands the
\* credits back before the error
Creates(r, saved, recorded) ==
    /\ req[r].pc = "create"
    /\ \E d \in Debates :
          /\ CreateSession(d, req[r].mode, saved, recorded)
          /\ req' = [req EXCEPT ![r] =
                       IF ~saved /\ ValidationCreditCosts[req[r].mode] > 0
                       THEN [@ EXCEPT !.pc = "refund"]
                       ELSE IF ~saved \/ ~recorded
                       THEN Finish(r, StatusRaised(500), "none")
                       ELSE [Finish(r, 200, "none") EXCEPT !.debate = d]]
    /\ UNCHANGED <<users, stripe_sessions, today, call, GovVars,
                   enable_historical, io>>

\* POST /billing/webhook: a delivery of the checkout.session.completed
\* event of the paid session, with a valid signature
WebhookArrives(r) ==
    /\ req[r].pc = "idle"
    /\ req' = [req EXCEPT ![r] =
                 [IdleRequest EXCEPT !.kind = "webhook", !.pc = "session_get"]]
    /\ UNCHANGED <<users, stripe_sessions, today, OrchestratorVars>>

\* "session_snapshot = session_ref.get"; "if not session_snapshot.exists"
SessionGet(r) ==
    /\ req[r].pc = "session_get"
    /\ req' = [req EXCEPT ![r] =
                 [@ EXCEPT !.pc = IF StripeSession \in DOMAIN stripe_sessions
                                  THEN "session_check" ELSE "session_set"]]
    /\ UNCHANGED <<users, stripe_sessions, today, OrchestratorVars>>

\* session_ref.set({..., "credits_granted": False}): the document is
\* replaced
SessionSet(r) ==
    /\ req[r].pc = "session_set"
    /\ stripe_sessions' =
          (StripeSession :>
              [data |-> [credits_granted |-> FALSE],
               update_time |->
                  DocumentSnapshot(stripe_sessions, StripeSession).update_time + 1])
          @@ stripe_sessions
    /\ req' = [req EXCEPT ![r] = [@ EXCEPT !.pc = "session_check"]]
    /\ UNCHANGED <<users, today, OrchestratorVars>>

\* the second session_ref.get; "if session_data.get('credits_granted')"
SessionCheck(r) ==
    LET session_data == DocumentSnapshot(stripe_sessions, StripeSession).data
    IN  /\ req[r].pc = "session_check"
        /\ req' = [req EXCEPT ![r] =
                     IF Get(session_data, "credits_granted", FALSE)
                     THEN Finish(r, 200, "none")
                     ELSE [@ EXCEPT !.pc = "user_update"]]
        /\ UNCHANGED <<users, stripe_sessions, today, OrchestratorVars>>

\* user_ref.update({..., "lifetimeCreditsPurchased": Increment(credits)});
\* update raises NotFound for a missing document
UserUpdate(r) ==
    /\ req[r].pc = "user_update"
    /\ IF Uid \in DOMAIN users
       THEN /\ users' = SetMerge(users, Uid,
                           [lifetimeCreditsPurchased |->
                              Get(users[Uid].data, "lifetimeCreditsPurchased", 0)
                                 + PackCredits])
            /\ req' = [req EXCEPT ![r] = [@ EXCEPT !.pc = "grant"]]
       ELSE /\ req' = [req EXCEPT ![r] = Finish(r, 500, "NotFound")]
            /\ UNCHANGED users
    /\ UNCHANGED <<stripe_sessions, today, OrchestratorVars>>

\* session_ref.update({"credits_granted": True}); return {"status": "ok"}
SessionMark(r) ==
    /\ req[r].pc = "mark"
    /\ stripe_sessions' = SetMerge(stripe_sessions, StripeSession,
                                   [credits_granted |-> TRUE])
    /\ req' = [req EXCEPT ![r] = Finish(r, 200, "none")]
    /\ UNCHANGED <<users, today, OrchestratorVars>>

\* the date changes
Midnight ==
    /\ today < MaxDay
    /\ today' = today + 1
    /\ UNCHANGED <<users, stripe_sessions, req, OrchestratorVars>>

\* the user's document before the requests: none, or one with a balance,
\* with or without a quick roast counted today
InitialUsers ==
    {<<>>}
    \cup {(Uid :> UserDoc(credits)) : credits \in 0..MaxCredits}
    \cup {(Uid :> [data |-> [credits |-> credits,
                             quick_roast_last_date |-> 1,
                             quick_roast_count_today |-> QuickRoastLimit],
                   update_time |-> 1]) : credits \in 0..MaxCredits}

InitBilling ==
    /\ InitCommon
    /\ enable_historical = FALSE
    /\ users \in InitialUsers

NextBilling ==
    \/ \E r \in Requests :
          \/ \E mode \in Modes : SubmitArrives(r, mode)
          \/ TransactionRuns(r)
          \/ TransactionCommits(r)
          \/ \E saved \in BOOLEAN, recorded \in BOOLEAN :
                Creates(r, saved, recorded)
          \/ WebhookArrives(r)
          \/ SessionGet(r)
          \/ SessionSet(r)
          \/ SessionCheck(r)
          \/ UserUpdate(r)
          \/ SessionMark(r)
    \/ Midnight

SpecBilling == InitBilling /\ [][NextBilling]_vars

----------------------------------------------------------------------------
(* Properties of the credits and the limit (SpecBilling)                   *)

\* the user's credit balance
Balance(coll) == get_current_credits(DocumentSnapshot(coll, Uid).data)

\* C33: however the consume_credits and grant_credits transactions of the
\* user's requests interleave, the balance is never negative, the commit
\* of a consume lowers it by exactly the amount asked for, and a consume
\* that raises InsufficientCreditsError leaves the user's document as it
\* was
C33_ConsumeIsExact ==
    [][/\ Balance(users) >= 0
       /\ Balance(users') >= 0
       /\ \A r \in Requests :
             /\ req'[r].consumed # req[r].consumed =>
                   /\ req'[r].consumed = ValidationCreditCosts[req[r].mode]
                   /\ Balance(users') = Balance(users) - req'[r].consumed
             /\ (req'[r].exc = "InsufficientCreditsError"
                    /\ req[r].exc = "none") =>
                   /\ users' = users
                   /\ req'[r].consumed = 0
                   /\ Balance(users) < ValidationCreditCosts[req[r].mode]]_vars

\* a consume is about to commit on a snapshot that is out of date because
\* a grant has been committed since it was read, after another consume has
\* gone through
C33_Witness ==
    \E r1 \in Requests, r2 \in Requests, r3 \in Requests :
        /\ req[r1].pc = "consume"
        /\ req[r1].committing
        /\ Balance(users) = get_current_credits(req[r1].snapshot.data) + PackCredits
        /\ req[r2].granted > 0
        /\ req[r3].consumed = ValidationCreditCosts["long"]

\* the short-mode submits that have arrived
ShortSubmits == {r \in Requests : req[r].mode = "short"}

\* they all arrived on the same day, which is still today
OnTheSameDay == \A r \in ShortSubmits : req[r].day = today

\* C34: of the short-mode submits of one day at most one passes
\* _enforce_quick_roast_limit, however they interleave; every other one
\* that has left the function was refused with QuickRoastLimitError; and
\* a submit passes over a stored count that has reached the limit only if
\* the stored date is not its day
C34_OneQuickRoastPerDay ==
    [][/\ OnTheSameDay =>
             /\ Cardinality({r \in ShortSubmits : req[r].passed}) <= QuickRoastLimit
             /\ \A r \in ShortSubmits :
                   req[r].pc # "limit" =>
                      req[r].passed # (req[r].exc = "QuickRoastLimitError")
       /\ \A r \in Requests :
             req'[r].passed /\ ~req[r].passed =>
                LET data == DocumentSnapshot(users, Uid).data
                    data_after == DocumentSnapshot(users', Uid).data
                IN  /\ Get(data, "quick_roast_count_today", 0) >= QuickRoastLimit
                          => Get(data, "quick_roast_last_date", 0) # req[r].day
                    /\ data_after["quick_roast_last_date"] = req[r].day
                    /\ data_after["quick_roast_count_today"] = 1]_vars

\* three short-mode submits of today: one has passed, one was refused and
\* one is about to commit on the snapshot it read before the first passed
C34_Witness ==
    \E r1 \in ShortSubmits, r2 \in ShortSubmits, r3 \in ShortSubmits :
        /\ OnTheSameDay
        /\ req[r1].passed
        /\ req[r2].exc = "QuickRoastLimitError"
        /\ req[r3].pc = "limit"
        /\ req[r3].committing
        /\ ~Commits(req[r3].snapshot, users, Uid)

\* C35: a submit refused for insufficient credits is answered with status
\* 402, and the step that refuses it takes no credits, stores no snapshot
\* and starts no task
C35_InsufficientIs402 ==
    [][\A r \in Requests :
          (req'[r].exc = "InsufficientCreditsError" /\ req[r].exc = "none") =>
             /\ req'[r].status = 402
             /\ req'[r].pc = "done"
             /\ req'[r].debate = "none"
             /\ users' = users
             /\ mem' = mem /\ fs' = fs /\ task' = task]_vars

\* C36: over all deliveries of the paid checkout.session.completed event
\* the pack's credits are granted at most once
C36_PackGrantedOnce ==
    \A r1 \in Requests, r2 \in Requests :
        req[r1].granted > 0 /\ req[r2].granted > 0 => r1 = r2

----------------------------------------------------------------------------
(* A save whose Firestore write fails                                      *)

\* save_debate_state has returned False in this step
SaveFailed == fs_failures' > fs_failures

\* C37 as stated: after a save that returned False, get_debate_state
\* returns for every id what it returned before the save
C37_FailedSaveInvisible ==
    [][SaveFailed =>
          \A d \in Debates : get_debate_state(d)' = get_debate_state(d)]_vars

\* C37, amended: a save that returned False leaves every Firestore document
\* as it was, but get_debate_state then returns the state that was handed
\* to the save: it differs from the state read before and from the stored
\* document, and it keeps every transcript event read before
C37_FailedSaveInMemoryOnly ==
    [][SaveFailed =>
          /\ fs' = fs
          /\ \E d \in Debates :
                /\ get_debate_state(d)' # get_debate_state(d)
                /\ get_debate_state(d)' # Get(fs', d, EmptyDict)
                /\ get_debate_state(d)' = mem'[d]
                /\ IsPrefix(Get(get_debate_state(d), "transcript", <<>>),
                            Get(get_debate_state(d)', "transcript", <<>>))]_vars

\* the write of an append failed: the event is read back and is not in the
\* Firestore document
C37_Witness ==
    \E d \in Debates :
        /\ fs_failures > 0
        /\ d \in DOMAIN fs
        /\ Len(Get(get_debate_state(d), "transcript", <<>>))
              = Len(TranscriptOf(fs, d)) + 1
        /\ task[d].pc \notin {"done", "rejected"}

----------------------------------------------------------------------------
(* Graph progress over the writes of execute_debate (SpecGraph)            *)

\* the events execute_debate appends, in the order of its code, when every
\* worker call returns and no precedent is found
AppendsOf(mode) ==
    IF mode = "short"
    THEN <<Event("Judge", 1, "clarification:start"),
           Event("Judge", 1, "clarification:output"),
           Event("Judge", 2, "verdict:start"),
           Event("Judge", 2, "verdict")>>
    ELSE <<Event("Judge", 1, "clarification:start"),
           Event("Judge", 1, "clarification:output"),
           Event("System", 2, "round2:start"),
           Event("Skeptic", 2, "attack:start"),
           Event("Skeptic", 2, "attack"),
           Event("Customer", 2, "customer:start"),
           Event("Customer", 2, "customer"),
           Event("Market", 2, "market:start"),
           Event("Market", 2, "market"),
           Event("Judge", 2, "quality_gate"),
           Event("Builder", 3, "defense:start"),
           Event("Builder", 3, "defense"),
           Event("Judge", 3, "quality_gate"),
           Event("System", 4, "cross_exam:start"),
           Event("Skeptic", 4, "cross_exam"),
           Event("Customer", 4, "cross_exam"),
           Event("Market", 4, "cross_exam"),
           Event("Builder", 4, "cross_exam"),
           Event("Judge", 5, "verdict:start"),
           Event("Judge", 5, "verdict")>>

\* get_debate_graph: ordered_nodes and round_to_index of the mode
OrderedNodes(validation_mode) ==
    IF validation_mode = "short"
    THEN <<"clarification", "verdict">>
    ELSE <<"clarification", "attacks", "defense", "verdict">>

RoundToIndex(validation_mode) ==
    IF validation_mode = "short"
    THEN (1 :> 0) @@ (2 :> 1)
    ELSE (1 :> 0) @@ (2 :> 1) @@ (3 :> 2) @@ (5 :> 3)

\* GET /debate/{id}/graph answered to the session's owner
get_debate_graph(d) ==
    LET state == get_debate_state(d)
        current_round == Get(state, "current_round", 0)
        ordered_nodes == OrderedNodes(Get(state, "validation_mode", "long"))
        idx == Get(RoundToIndex(Get(state, "validation_mode", "long")),
                   current_round, -1)
        completed_nodes == IF idx >= 0 THEN SubSeq(ordered_nodes, 1, idx)
                           ELSE <<>>
        NotCompleted(n) == ~InSeq(n, completed_nodes)
    IN  IF ~Truthy(state)
        THEN [code |-> 404, current_round |-> 0, completed_nodes |-> <<>>,
              pending_nodes |-> <<>>]
        ELSE [code |-> 200, current_round |-> current_round,
              completed_nodes |-> completed_nodes,
              pending_nodes |-> SelectSeq(ordered_nodes, NotCompleted)]

\* the task is running and has appended this many events
Appending(d) ==
    /\ task[d].pc = "extract"
    /\ Get(get_debate_state(d), "status", "none") \notin Terminal

\* the next append_event of the code
AppendNext(d, written) ==
    LET state == get_debate_state(d)
        appends == AppendsOf(state["validation_mode"])
        n == Len(state["transcript"])
    IN  /\ Appending(d)
        /\ n < Len(appends)
        /\ append_event(d, appends[n + 1], written)
        /\ UNCHANGED <<task, call, GovVars, enable_historical, io, BillingVars>>

\* the final update after the verdict event
StoreVerdict(d, written) ==
    LET state == get_debate_state(d)
    IN  /\ Appending(d)
        /\ Len(state["transcript"]) = Len(AppendsOf(state["validation_mode"]))
        /\ save_debate_state(d, Completed(state, TheVerdict), written)
        /\ UNCHANGED <<task, call, GovVars, enable_historical, io, BillingVars>>

\* a worker call raises instead: the handler stores the failure
StoreFailure(d, written) ==
    LET state == get_debate_state(d)
    IN  /\ Appending(d)
        /\ Len(state["transcript"]) < Len(AppendsOf(state["validation_mode"]))
        /\ save_debate_state(d, Update(state, [status |-> FailedStatus,
                                               round_status |-> "failed",
                                               error |-> FailedError("error")]),
                             written)
        /\ UNCHANGED <<task, call, GovVars, enable_historical, io, BillingVars>>

\* and appends the error event
AppendErrorEvent(d, written) ==
    LET state == get_debate_state(d)
    IN  /\ task[d].pc = "extract"
        /\ Get(state, "status", "none") = "failed"
        /\ "error" \notin Types(state["transcript"])
        /\ append_event(d, ErrorEvent("error"), written)
        /\ UNCHANGED <<task, call, GovVars, enable_historical, io, BillingVars>>

NextGraph ==
    \E d \in Debates :
        \/ \E mode \in Modes, saved \in BOOLEAN, recorded \in BOOLEAN :
              validate_idea(d, mode, saved, recorded)
        \/ \E written \in BOOLEAN :
              \/ MarkInProgress(d, written)
              \/ AppendNext(d, written)
              \/ StoreVerdict(d, written)
              \/ StoreFailure(d, written)
              \/ AppendErrorEvent(d, written)

SpecGraph == Init /\ [][NextGraph]_vars

----------------------------------------------------------------------------
(* Diversity of the re-ranked precedents (SpecRanking)                     *)

\* the candidates a slot may be filled from, given the results before it:
\* those not yet chosen whose verdict decision or domain is new, or, when
\* there is none, all those not yet chosen
SlotChoices(candidates, results, slot) ==
    LET before == {results[j] : j \in 1..(slot - 1)}
        remaining == {candidates[i] : i \in 1..Len(candidates)}
                        \ {c \in before : TRUE}
        diverse == {c \in remaining :
                      \/ \A b \in before : b.verdict_decision # c.verdict_decision
                      \/ \A b \in before : b.domain # c.domain}
    IN  IF diverse # {} THEN diverse ELSE remaining

\* C39: _diversity_rerank fills every slot it has candidates for; the
\* first result is a top composite scorer, and every further result is a
\* highest-scoring candidate among those not yet chosen whose verdict
\* decision or domain is new, or among all not yet chosen when none is new
C39_DiverseSlots ==
    io.fn = "_diversity_rerank" =>
        LET candidates == io.in.candidates
            results == io.out
        IN  /\ Len(results) = Min(io.in.n_results, Len(candidates))
            /\ \A slot \in 1..Len(results) :
                  LET choices == SlotChoices(candidates, results, slot)
                  IN  /\ results[slot] \in choices
                      /\ \A c \in choices :
                            c.composite_score <= results[slot].composite_score

====
